---- MODULE Spec2Model ----
(***************************************************************************)
(* Model of the registration and coordinate-calibration code of the        *)
(* automation scripts:                                                     *)
(*   automation/calibration/beam_shift_main.py  (transform, signed angle,  *)
(*       full-mode estimator, binning, the angle self-calibration loop)    *)
(*   automation/tiling/main.py  (valid-mode estimator, the tile loop and   *)
(*       its correction sub-loop)                                          *)
(*                                                                         *)
(* Numbers.  The scripts compute in float64.  The model computes in fixed  *)
(* point over the integers:                                                *)
(*   - an angle is an integer number of 1/UnitsPerDegree degrees;          *)
(*   - np.cos / np.sin are a table of sin at whole degrees, scaled by      *)
(*     TRIG_SCALE, interpolated linearly in between; they are exact at     *)
(*     the multiples of 90 degrees;                                        *)
(*   - a beam-shift Point and the result of beam_to_image_shift carry      *)
(*     TRIG_SCALE units per unit of their physical quantity.               *)
(* Integers of the checker are 32 bits wide, so products that do not fit   *)
(* are formed in two halves (MulShift, ProdLeq).                           *)
(***************************************************************************)
EXTENDS Integers, Sequences, FiniteSets, TLC

VARIABLES
    fn,      \* the pure function under study, "none" when a script is running
    args,    \* its arguments
    step,    \* how far the function calls have got
    out      \* the results so far, in call order

VARIABLES
    \* the calibration script, beam_shift_main.py
    cal_pc,                     \* where the script is
    guard_counter,
    image_to_beam_shift_angle,
    correction_angle_list,
    images_list,                \* the frames acquired, in order
    beam_shift,                 \* microscope.optics.deflectors.beam_shift
    is_moving,                  \* microscope.specimen.stage.is_moving
    column_valves,              \* "open" or "closed"
    instrument,                 \* the microscope the script is connected to
    peak_index,                 \* argmax of the round's correlation surface (row, col)
    used_frames,                \* the frames the round's estimate was computed from
    correction_angle,           \* the round's correction angle
    probe_commands,             \* how many probe deflections were commanded
    exit_path,                  \* how the loop was left
    printed,                    \* what the script printed, debug lines left out
    commands                    \* the instrument commands of the current round, in order

VARIABLES
    \* the tiling script, tiling/main.py
    tile_pc,                    \* where the script is
    grid,                       \* [rows, cols]: the numbers of rows and columns to tile
    ti, tj,                     \* the loop variables i and j
    tile_images_list,           \* images_list: the stored frames' data
    adornedImage_list,          \* the stored frames with their stage position
    desired_abs_stage_pos,
    stage_pos,                  \* microscope.specimen.stage.position, << x, y >>
    stage_error,                \* the positioning error of the stage
    correction_attempts,
    tile_peak,                  \* the last peak_index of cross_correlate, (row, col)
    tile_used,                  \* the frames of the last estimate: template tile, search tile
    tile_pipeline,              \* the functions the last estimate applied, in call order
    tile_moves,                 \* the relative moves of the last correction, in order
    seam_estimates,             \* estimates made in the current run of the sub-loop
    seam_reacquired,            \* frames re-acquired in the current run of the sub-loop
    seam_exit,                  \* how the sub-loop was last left
    seams_entered,              \* the (i, j) at each entry of the sub-loop, in order
    frames_acquired,            \* how many frames the script has acquired
    tile_valves                 \* "open" or "closed"

VARIABLES
    \* a MerlinInterface object, simultaneous_signal_acquisition/merlin_interface.py
    m_pc,                       \* where the current call is, "idle" between calls
    test_mode,
    connected,
    m_op,                       \* the method or property of the current call
    command_string,             \* the message built for it, as its comma-separated fields
    return_data,                \* the response, as its comma-separated fields
    sends,                      \* calls of socket.send in the current call
    connects,                   \* calls of socket.connect in the current call
    transport_failures,         \* socket.timeout / ConnectionError raised in the current call
    m_result,                   \* how the last call ended and what it gave back
    m_printed                   \* what the last call printed

fnVars == << fn, args, step, out >>
merVars == << m_pc, test_mode, connected, m_op, command_string, return_data, sends, connects,
              transport_failures, m_result, m_printed >>
tileVars == << tile_pc, grid, ti, tj, tile_images_list, adornedImage_list,
               desired_abs_stage_pos, stage_pos, stage_error, correction_attempts,
               tile_peak, tile_used, tile_pipeline, tile_moves, seam_estimates, seam_reacquired,
               seam_exit, seams_entered, frames_acquired, tile_valves >>
calVars == << cal_pc, guard_counter, image_to_beam_shift_angle, correction_angle_list,
              images_list, beam_shift, is_moving, column_valves, instrument,
              peak_index, used_frames, correction_angle, probe_commands, exit_path,
              printed, commands >>
vars == << fnVars, calVars, tileVars, merVars >>

----------------------------------------------------------------------------
(* Resolution of the fixed-point numbers *)

\* angle units per degree
UnitsPerDegree == 1000
\* the value of cos 0
TRIG_SCALE == 32768

----------------------------------------------------------------------------
(* Bounds of the model *)

\* largest component (pixels) of a displacement vector given to the transform
MaxPx == 2
\* largest pixel size (in physical units per pixel) given to the transform
MaxPixelSize == 2
\* largest component of a vector given to the signed-angle function
MaxVec == 2
\* the instrument stub's misalignment is a multiple of MisalignStepDeg
\* degrees, at most MaxMisalignSteps of them either way
MaxMisalignSteps == 18
\* the tile grid has at most MaxRows rows and MaxCols columns
MaxRows == 2
MaxCols == 3
\* frames handed to bin_image have a side of up to MaxSideUnits * SideUnit
\* pixels and the bin factor is at most MaxBinFactor
MaxSideUnits == 16
MaxBinFactor == 4
\* canvases of the estimator are up to MaxCanvas pixels and templates up to
\* MaxTemplate pixels on a side
MaxCanvas == 3
MaxTemplate == 2
\* pixel values of the frames whose content is binned start at 0 .. MaxPixelValue
MaxPixelValue == 1
\* the images whose correlation has ties are up to MaxTieSide pixels on a side
MaxTieSide == 2
\* generate_template: frame widths 1 .. MaxWidth
MaxWidth == 16

----------------------------------------------------------------------------
(* Constants of the scripts *)

IMAGE_SIZE == 1024
\* OVERLAP_FACTOR = 0.3 = OVERLAP_NUM / OVERLAP_DEN
OVERLAP_NUM == 3
OVERLAP_DEN == 10
BIN_FACTOR == 4
\* the side bin_image reshapes to
BINNED_SIDE == 256
\* the attempt bound of the calibration loop
GUARD_LIMIT == 5
\* PIXEL_SIZE = FOV / IMAGE_SIZE, in physical units
PIXEL_SIZE == 1
\* int(IMAGE_SIZE * (1 - OVERLAP_FACTOR))
DESIRED_SHIFT_PX == (IMAGE_SIZE * (OVERLAP_DEN - OVERLAP_NUM)) \div OVERLAP_DEN
\* the 0.5 degrees of the convergence test
CONVERGENCE_TOLERANCE == UnitsPerDegree \div 2
MisalignStepDeg == 5
\* tiling/main.py
SHIFT_TOLERANCE_PIXELS == 5
\* the retry budget of the correction sub-loop
RETRY_BUDGET == 10

----------------------------------------------------------------------------
(* Fixed-point arithmetic *)

Abs(x) == IF x < 0 THEN -x ELSE x
Sign(x) == IF x < 0 THEN -1 ELSE IF x > 0 THEN 1 ELSE 0

\* x / d rounded to the nearest integer (d > 0), halves away from zero
RoundDiv(x, d) == Sign(x) * ((2 * Abs(x) + d) \div (2 * d))

\* a * b / TRIG_SCALE rounded to nearest, without forming a * b
MulShift(a, b) ==
    LET B  == TRIG_SCALE
        a1 == Abs(a) \div B
        a0 == Abs(a) % B
        b1 == Abs(b) \div B
        b0 == Abs(b) % B
    IN  Sign(a) * Sign(b)
          * (a1 * b1 * B + a1 * b0 + a0 * b1 + ((a0 * b0 + B \div 2) \div B))

\* a * b <= c * d for naturals with b, d <= TRIG_SCALE, without forming the products
ProdLeq(a, b, c, d) ==
    LET B  == TRIG_SCALE
        h1 == (a \div B) * b + (((a % B) * b) \div B)
        l1 == ((a % B) * b) % B
        h2 == (c \div B) * d + (((c % B) * d) \div B)
        l2 == ((c % B) * d) % B
    IN  h1 < h2 \/ (h1 = h2 /\ l1 <= l2)

\* TRIG_SCALE * sin(d degrees), d = 0..90, rounded
SinTable ==
    << 0, 572, 1144, 1715, 2286, 2856, 3425, 3993, 4560, 5126,
       5690, 6252, 6813, 7371, 7927, 8481, 9032, 9580, 10126, 10668,
       11207, 11743, 12275, 12803, 13328, 13848, 14365, 14876, 15384, 15886,
       16384, 16877, 17364, 17847, 18324, 18795, 19261, 19720, 20174, 20622,
       21063, 21498, 21926, 22348, 22763, 23170, 23571, 23965, 24351, 24730,
       25102, 25466, 25822, 26170, 26510, 26842, 27166, 27482, 27789, 28088,
       28378, 28660, 28932, 29197, 29452, 29698, 29935, 30163, 30382, 30592,
       30792, 30983, 31164, 31336, 31499, 31651, 31795, 31928, 32052, 32166,
       32270, 32365, 32449, 32524, 32588, 32643, 32688, 32723, 32748, 32763,
       32768 >>

\* sin on the first quadrant, u in 0 .. 90 * UnitsPerDegree
SinQuadrant(u) ==
    LET d == u \div UnitsPerDegree
        r == u % UnitsPerDegree
    IN  IF r = 0 THEN SinTable[d + 1]
        ELSE (SinTable[d + 1] * (UnitsPerDegree - r) + SinTable[d + 2] * r
                + UnitsPerDegree \div 2) \div UnitsPerDegree

\* np.sin(np.radians(t)) * TRIG_SCALE, any angle t
Sin(t) ==
    LET Q == 90 * UnitsPerDegree
        m == t % (4 * Q)
    IN  IF m <= Q THEN SinQuadrant(m)
        ELSE IF m <= 2 * Q THEN SinQuadrant(2 * Q - m)
        ELSE IF m <= 3 * Q THEN -SinQuadrant(m - 2 * Q)
        ELSE -SinQuadrant(4 * Q - m)

\* np.cos(np.radians(t)) * TRIG_SCALE
Cos(t) == Sin(t + 90 * UnitsPerDegree)

\* a float that is a number
Num(n) == [nan |-> FALSE, val |-> n]
\* the float NaN
NaN == [nan |-> TRUE, val |-> 0]

----------------------------------------------------------------------------
(* Coordinate transform, beam_shift_main.py *)

\* Point(x, y) of the microscope client
Point(px, py) == [x |-> px, y |-> py]

\* the y component is not reflected
image_to_beam_shift_unreflected(px_col_vector_xy, pixel_size, angle_deg) ==
    LET c == Cos(angle_deg)
        s == Sin(angle_deg)
        vector_meters == << px_col_vector_xy[1] * pixel_size,
                            px_col_vector_xy[2] * pixel_size >>
        transformed_vector == << c * vector_meters[1] - s * vector_meters[2],
                                 s * vector_meters[1] + c * vector_meters[2] >>
    IN  Point(transformed_vector[1], transformed_vector[2])

\* the rotation is made with the default angle_deg = 22.4 whatever is passed
image_to_beam_shift_default_angle(px_col_vector_xy, pixel_size, angle_deg) ==
    LET c == Cos(22400)
        s == Sin(22400)
        vector_meters == << px_col_vector_xy[1] * pixel_size,
                            px_col_vector_xy[2] * pixel_size >>
        transformed_vector == << c * vector_meters[1] - s * vector_meters[2],
                                 s * vector_meters[1] + c * vector_meters[2] >>
    IN  Point(transformed_vector[1], -transformed_vector[2])

\* image_to_beam_shift(px_col_vector_xy, pixel_size, angle_deg): the Point
\* holds TRIG_SCALE units per physical unit
image_to_beam_shift(px_col_vector_xy, pixel_size, angle_deg) ==
    LET c == Cos(angle_deg)
        s == Sin(angle_deg)
        vector_meters == << px_col_vector_xy[1] * pixel_size,
                            px_col_vector_xy[2] * pixel_size >>
        transformed_vector == << c * vector_meters[1] - s * vector_meters[2],
                                 s * vector_meters[1] + c * vector_meters[2] >>
        reflection_factor == -1
    IN  Point(transformed_vector[1], transformed_vector[2] * reflection_factor)

\* a slip in the inverse: the rotation matrix is used without transposing it
beam_to_image_shift_untransposed(beam_shift_col_vector_xy, pixel_size, angle_deg) ==
    LET c == Cos(angle_deg)
        s == Sin(angle_deg)
        beam_shift_vector_refl == << beam_shift_col_vector_xy.x,
                                     beam_shift_col_vector_xy.y * (-1) >>
        vector_meters ==
            << MulShift(c, beam_shift_vector_refl[1]) - MulShift(s, beam_shift_vector_refl[2]),
               MulShift(s, beam_shift_vector_refl[1]) + MulShift(c, beam_shift_vector_refl[2]) >>
    IN  << RoundDiv(vector_meters[1], pixel_size), RoundDiv(vector_meters[2], pixel_size) >>

\* beam_to_image_shift(beam_shift_col_vector_xy, pixel_size, angle_deg): the
\* result holds TRIG_SCALE units per pixel
beam_to_image_shift(beam_shift_col_vector_xy, pixel_size, angle_deg) ==
    LET c == Cos(angle_deg)
        s == Sin(angle_deg)
        \* rotation_matrix_inverse = [[c, s], [-s, c]]
        beam_shift_vector_refl == << beam_shift_col_vector_xy.x,
                                     beam_shift_col_vector_xy.y * (-1) >>
        vector_meters ==
            << MulShift(c, beam_shift_vector_refl[1]) + MulShift(s, beam_shift_vector_refl[2]),
               MulShift(-s, beam_shift_vector_refl[1]) + MulShift(c, beam_shift_vector_refl[2]) >>
    IN  << RoundDiv(vector_meters[1], pixel_size), RoundDiv(vector_meters[2], pixel_size) >>

----------------------------------------------------------------------------
(* float64 arithmetic where its rounding shows.  A float64 that is not zero
   is held here as its 53 significant bits, most significant first, and an
   exponent: [m |-> bits, e |-> k] is the number 0.b1 b2 ... b53 (binary)
   times 2^k.  Every operation gives the correctly rounded result, ties to
   even. *)
MANTISSA_BITS == 53

\* bits plus one, and the carry out of the first bit
IncBits(bits) ==
    IF \A k \in 1 .. Len(bits) : bits[k] = 1
    THEN [bits |-> [k \in 1 .. Len(bits) |-> 0], carry |-> 1]
    ELSE LET last == CHOOSE j \in 1 .. Len(bits) :
                         bits[j] = 0 /\ \A k \in j + 1 .. Len(bits) : bits[k] = 1
         IN  [bits |-> [k \in 1 .. Len(bits) |->
                           IF k < last THEN bits[k] ELSE IF k = last THEN 1 ELSE 0],
              carry |-> 0]

\* how many zeros come before the first 1
LeadingZeros(bits) ==
    IF \A k \in 1 .. Len(bits) : bits[k] = 0 THEN Len(bits)
    ELSE (CHOOSE j \in 1 .. Len(bits) : bits[j] = 1 /\ \A k \in 1 .. j - 1 : bits[k] = 0) - 1

\* the float64 nearest to 0.b1 b2 ... (binary) times 2^e, for bits that begin
\* with a 1: the bits after the 53rd decide the rounding
RoundBits(bits, e) ==
    IF Len(bits) <= MANTISSA_BITS
    THEN [m |-> bits \o [k \in 1 .. MANTISSA_BITS - Len(bits) |-> 0], e |-> e]
    ELSE LET keep == SubSeq(bits, 1, MANTISSA_BITS)
             rest == SubSeq(bits, MANTISSA_BITS + 1, Len(bits))
             sticky == \E k \in 2 .. Len(rest) : rest[k] = 1
             up == rest[1] = 1 /\ (sticky \/ keep[MANTISSA_BITS] = 1)
             r == IncBits(keep)
         IN  IF ~up THEN [m |-> keep, e |-> e]
             ELSE IF r.carry = 1
                  THEN [m |-> << 1 >> \o [k \in 1 .. MANTISSA_BITS - 1 |-> 0], e |-> e + 1]
                  ELSE [m |-> r.bits, e |-> e]

\* np.linalg.norm of a vector whose squared length is n = 1 .. 18, that is
\* the float64 sqrt(n): the 53 bits in five groups of 12, the lowest first
\* (the fifth holds the highest 5 bits), and the exponent
SqrtTable ==
    << [m |-> << 0, 0, 0, 0, 16 >>, e |-> 1],
       [m |-> << 3021, 2035, 3686, 2569, 22 >>, e |-> 1],
       [m |-> << 3242, 1412, 2792, 2919, 27 >>, e |-> 1],
       [m |-> << 0, 0, 0, 0, 16 >>, e |-> 2],
       [m |-> << 1192, 2431, 1947, 3639, 17 >>, e |-> 2],
       [m |-> << 302, 146, 3604, 2440, 19 >>, e |-> 2],
       [m |-> << 2282, 3375, 4009, 679, 21 >>, e |-> 2],
       [m |-> << 3021, 2035, 3686, 2569, 22 >>, e |-> 2],
       [m |-> << 0, 0, 0, 0, 24 >>, e |-> 2],
       [m |-> << 2899, 3493, 2106, 1221, 25 >>, e |-> 2],
       [m |-> << 3892, 4054, 659, 2183, 26 >>, e |-> 2],
       [m |-> << 3242, 1412, 2792, 2919, 27 >>, e |-> 2],
       [m |-> << 2547, 1557, 2884, 3458, 28 >>, e |-> 2],
       [m |-> << 3913, 1667, 2577, 3822, 29 >>, e |-> 2],
       [m |-> << 3802, 1268, 3761, 4029, 30 >>, e |-> 2],
       [m |-> << 0, 0, 0, 0, 16 >>, e |-> 3],
       [m |-> << 3335, 2814, 3942, 2016, 16 >>, e |-> 3],
       [m |-> << 3289, 3574, 1740, 3975, 16 >>, e |-> 3] >>

\* magnitude_vec1 * magnitude_vec2 > |dot_product| in float64, for two vectors
\* on one line, where the exact product is |dot_product|.  A vector along an
\* axis has an integer magnitude and the product of two is exact; otherwise the
\* two square roots are rounded, their product is rounded, and the result may
\* lie above |dot_product|, which makes |cos_theta| less than 1.
MagnitudesOvershoot(vec1, vec2) ==
    LET onAxis(v) == v[1] = 0 \/ v[2] = 0
        f1 == SqrtTable[vec1[1] * vec1[1] + vec1[2] * vec1[2]]
        f2 == SqrtTable[vec2[1] * vec2[1] + vec2[2] * vec2[2]]
        dot == Abs(vec1[1] * vec2[1] + vec1[2] * vec2[2])
        \* the exact product of the two significands, by long multiplication
        term(i, k) == IF k + 1 - i \in 1 .. 5 THEN f1.m[i] * f2.m[k + 1 - i] ELSE 0
        column == [k \in 1 .. 9 |->
                     term(1, k) + term(2, k) + term(3, k) + term(4, k) + term(5, k)]
        RECURSIVE carry(_)
        carry(k) == IF k = 1 THEN 0 ELSE (column[k - 1] + carry(k - 1)) \div 4096
        group == [k \in 1 .. 10 |->
                    IF k = 10 THEN carry(10) ELSE (column[k] + carry(k)) % 4096]
        bits == [k \in 1 .. 120 |->
                    (group[10 - ((k - 1) \div 12)] \div 2 ^ (11 - ((k - 1) % 12))) % 2]
        z == LeadingZeros(bits)
        product == RoundBits(SubSeq(bits, z + 1, 120), f1.e + f2.e + 14 - z)
        \* |dot_product| as a float64
        width == CHOOSE l \in 1 .. 30 : 2 ^ (l - 1) <= dot /\ dot < 2 ^ l
        exact == [k \in 1 .. MANTISSA_BITS |->
                    IF k <= width THEN (dot \div 2 ^ (width - k)) % 2 ELSE 0]
    IN  IF onAxis(vec1) /\ onAxis(vec2) THEN FALSE
        ELSE \/ product.e > width
             \/ /\ product.e = width
                /\ \E k \in 1 .. MANTISSA_BITS :
                      /\ product.m[k] = 1 /\ exact[k] = 0
                      /\ \A j \in 1 .. k - 1 : product.m[j] = exact[j]

----------------------------------------------------------------------------
(* Signed angle, beam_shift_main.py *)

\* np.degrees(np.arccos(.)) of the cosine dot / (|vec1| |vec2|): the angle t of
\* 0 .. 180 degrees with |vec1||vec2| cos t = dot and |vec1||vec2| sin t = |cross|,
\* to the grid; found by bisection on the sign of |cross| cos t - dot sin t
RECURSIVE ArcCosSearch(_, _, _, _)
ArcCosSearch(dot, across, lo, hi) ==
    \* invariant: the sign test holds at lo and fails at hi
    IF hi - lo <= 1 THEN lo
    ELSE LET mid == (lo + hi) \div 2
             ok  == IF dot >= 0
                    THEN ProdLeq(dot, Sin(mid), across, Cos(mid))
                    ELSE ProdLeq(across, -Cos(mid), -dot, Sin(mid))
         IN  IF ok THEN ArcCosSearch(dot, across, mid, hi)
                   ELSE ArcCosSearch(dot, across, lo, mid)

\* For vectors on one line cos_theta is 1 or -1, or, when the product of the
\* magnitudes came out above |dot| (short), 2^-53 short of it: the arccos of
\* that is 1.2e-6 degrees away from 0 or 180, which on the grid, cut towards
\* 0, is 0 and 179.999.
ArcCosDegrees(dot, across, short) ==
    LET Q == 90 * UnitsPerDegree
    IN  IF across = 0 THEN (IF dot > 0 THEN 0 ELSE IF short THEN 2 * Q - 1 ELSE 2 * Q)
        ELSE IF dot = 0 THEN Q
        ELSE IF dot > 0 THEN ArcCosSearch(dot, across, 0, Q)
        ELSE ArcCosSearch(dot, across, Q, 2 * Q)

\* the angle is never negated
calculate_signed_angle_unsigned(vec1, vec2) ==
    LET dot_product == vec1[1] * vec2[1] + vec1[2] * vec2[2]
        cross_product == vec1[1] * vec2[2] - vec1[2] * vec2[1]
    IN  IF (vec1[1] = 0 /\ vec1[2] = 0) \/ (vec2[1] = 0 /\ vec2[2] = 0)
        THEN NaN
        ELSE Num(ArcCosDegrees(dot_product, Abs(cross_product),
                               MagnitudesOvershoot(vec1, vec2)))

\* the sign test of the cross product reads > instead of <
calculate_signed_angle_flipped(vec1, vec2) ==
    LET dot_product == vec1[1] * vec2[1] + vec1[2] * vec2[2]
        cross_product == vec1[1] * vec2[2] - vec1[2] * vec2[1]
        angle == ArcCosDegrees(dot_product, Abs(cross_product),
                               MagnitudesOvershoot(vec1, vec2))
    IN  IF (vec1[1] = 0 /\ vec1[2] = 0) \/ (vec2[1] = 0 /\ vec2[2] = 0)
        THEN NaN
        ELSE Num(IF cross_product > 0 THEN -angle ELSE angle)

\* calculate_signed_angle_between_vectors(vec1, vec2), in angle units.  A zero
\* magnitude makes cos_theta = 0 / 0.0, which numpy evaluates to nan (with a
\* RuntimeWarning, no exception); clip, arccos and degrees pass nan on.
calculate_signed_angle_between_vectors(vec1, vec2) ==
    LET dot_product == vec1[1] * vec2[1] + vec1[2] * vec2[2]
        magnitude_vec1_sq == vec1[1] * vec1[1] + vec1[2] * vec1[2]
        magnitude_vec2_sq == vec2[1] * vec2[1] + vec2[2] * vec2[2]
        cross_product == vec1[1] * vec2[2] - vec1[2] * vec2[1]
        angle == ArcCosDegrees(dot_product, Abs(cross_product),
                               MagnitudesOvershoot(vec1, vec2))
    IN  IF magnitude_vec1_sq = 0 \/ magnitude_vec2_sq = 0
        THEN NaN
        ELSE Num(IF cross_product < 0 THEN -angle ELSE angle)

----------------------------------------------------------------------------
(* The estimators' arithmetic after the correlation *)

\* generate_template: the first column of the slice image[:, int(width * (1 - overlap_factor)):]
\* for the scripts' OVERLAP_FACTOR = 0.3; at the binned width 256 the float64
\* product is 179.2 and the start 179, as here
TemplateStart(width) == (width * (OVERLAP_DEN - OVERLAP_NUM)) \div OVERLAP_DEN

\* the vector is left in (row, column) order
TranslationFromPeakUnflipped(peak, corr_shape) ==
    << peak[1] - corr_shape[1] \div 2, peak[2] - corr_shape[2] \div 2 >>

\* compute_translation_vector from the argmax on: center = shape // 2,
\* translation_vector = peak_index - center, flipped to (x, y)
TranslationFromPeak(peak, corr_shape) ==
    LET center == << corr_shape[1] \div 2, corr_shape[2] \div 2 >>
        translation_vector == << peak[1] - center[1], peak[2] - center[2] >>
    IN  << translation_vector[2], translation_vector[1] >>

\* shape of correlate2d(current_im, template, mode='full')
FullShape(im_shape, t_shape) ==
    << im_shape[1] + t_shape[1] - 1, im_shape[2] + t_shape[2] - 1 >>

\* an image is a sequence of rows; Shape is numpy's .shape and At the
\* zero-based element
Shape(image) == << Len(image), Len(image[1]) >>
At(image, m, n) == image[m + 1][n + 1]

RECURSIVE SumOver(_, _)
SumOver(f, S) ==
    IF S = {} THEN 0
    ELSE LET x == CHOOSE y \in S : TRUE IN f[x] + SumOver(f, S \ {x})

\* scipy.signal.correlate2d(current_im, template, mode='full'), indexed from 0:
\* z[k, l] = sum over m, n of current_im[m, n] * template[m - k + Ht - 1, n - l + Wt - 1]
correlate2d_full(current_im, template) ==
    LET ishape == Shape(current_im)
        tshape == Shape(template)
        zshape == FullShape(ishape, tshape)
        Cells == (0 .. ishape[1] - 1) \X (0 .. ishape[2] - 1)
        Term(k, l) ==
            [c \in Cells |->
                LET a == c[1] - k + tshape[1] - 1
                    b == c[2] - l + tshape[2] - 1
                IN  IF a \in 0 .. tshape[1] - 1 /\ b \in 0 .. tshape[2] - 1
                    THEN At(current_im, c[1], c[2]) * At(template, a, b)
                    ELSE 0]
    IN  [k \in 0 .. zshape[1] - 1 |-> [l \in 0 .. zshape[2] - 1 |-> SumOver(Term(k, l), Cells)]]

\* the last of the maxima is taken
ArgMaxLast(correlation, shape) ==
    LET Idx == (0 .. shape[1] - 1) \X (0 .. shape[2] - 1)
        Flat(i) == i[1] * shape[2] + i[2]
    IN  CHOOSE i \in Idx :
            \A j \in Idx :
                \/ correlation[j[1]][j[2]] < correlation[i[1]][i[2]]
                \/ correlation[j[1]][j[2]] = correlation[i[1]][i[2]] /\ Flat(j) <= Flat(i)

\* np.unravel_index(np.argmax(correlation), correlation.shape): the first
\* maximum in row-major order, as (row, column)
ArgMax(correlation, shape) ==
    LET Idx == (0 .. shape[1] - 1) \X (0 .. shape[2] - 1)
        Flat(i) == i[1] * shape[2] + i[2]
    IN  CHOOSE i \in Idx :
            \A j \in Idx :
                \/ correlation[j[1]][j[2]] < correlation[i[1]][i[2]]
                \/ correlation[j[1]][j[2]] = correlation[i[1]][i[2]] /\ Flat(i) <= Flat(j)

compute_translation_vector(current_im, template) ==
    LET correlation == correlate2d_full(current_im, template)
        zshape == FullShape(Shape(current_im), Shape(template))
        peak == ArgMax(correlation, zshape)
    IN  TranslationFromPeak(peak, zshape)

\* shape of correlate2d(image, template, mode="valid")
ValidShape(im_shape, t_shape) ==
    << im_shape[1] - t_shape[1] + 1, im_shape[2] - t_shape[2] + 1 >>

\* scipy.signal.correlate2d(image, template, mode="valid"), indexed from 0:
\* z[k, l] = sum over m, n of image[k + m, l + n] * template[m, n]
correlate2d_valid(image, template) ==
    LET tshape == Shape(template)
        zshape == ValidShape(Shape(image), tshape)
        Cells == (0 .. tshape[1] - 1) \X (0 .. tshape[2] - 1)
        Term(k, l) ==
            [c \in Cells |-> At(image, k + c[1], l + c[2]) * At(template, c[1], c[2])]
    IN  [k \in 0 .. zshape[1] - 1 |-> [l \in 0 .. zshape[2] - 1 |-> SumOver(Term(k, l), Cells)]]

\* the peak is handed back as (column, row)
cross_correlate_flipped(image, template) ==
    LET corr_map == correlate2d_valid(image, template)
        peak == ArgMax(corr_map, ValidShape(Shape(image), Shape(template)))
    IN  << peak[2], peak[1] >>

\* tiling/main.py, cross_correlate
cross_correlate(image, template) ==
    LET corr_map == correlate2d_valid(image, template)
    IN  ArgMax(corr_map, ValidShape(Shape(image), Shape(template)))

----------------------------------------------------------------------------
(* generate_template, the same in beam_shift_main.py and tiling/main.py *)

\* image.shape[1] * (1 - overlap_factor) is computed in float64, as follows

\* the float64 of the decimal literal n / d, for 0 < n < d: the binary
\* expansion of n / d from its first 1 on, 54 bits of it and one more bit that
\* is 1 if the rest of the expansion is not zero, rounded
FloatOfFraction(n, d) ==
    LET \* 2^k modulo d
        RECURSIVE Pow2Mod(_)
        Pow2Mod(k) ==
            IF k = 0 THEN 1 % d
            ELSE LET h == Pow2Mod(k \div 2) IN (h * h * (IF k % 2 = 1 THEN 2 ELSE 1)) % d
        \* the remainder after the first k bits of the expansion
        RemainderAfter(k) == (n * Pow2Mod(k)) % d
        \* the zeros before the first 1 of the expansion
        z == (CHOOSE k \in 1 .. d : 2 * RemainderAfter(k - 1) >= d
                                    /\ \A j \in 1 .. k - 1 : 2 * RemainderAfter(j - 1) < d) - 1
        expansion ==
            [k \in 1 .. MANTISSA_BITS + 2 |->
                IF k <= MANTISSA_BITS + 1 THEN (2 * RemainderAfter(z + k - 1)) \div d
                ELSE IF RemainderAfter(z + MANTISSA_BITS + 1) # 0 THEN 1 ELSE 0]
    IN  RoundBits(expansion, -z)

\* 1 - x in float64, for a float64 0 < x < 1
OneMinus(x) ==
    LET fraction == [k \in 1 .. -x.e |-> 0] \o x.m
        inverted == [k \in 1 .. Len(fraction) |-> 1 - fraction[k]]
        difference == IncBits(inverted).bits
        z == LeadingZeros(difference)
    IN  RoundBits(SubSeq(difference, z + 1, Len(difference)), -z)

\* the number written by a few bits
RECURSIVE ValueOfBits(_)
ValueOfBits(bits) ==
    IF bits = << >> THEN 0
    ELSE 2 * ValueOfBits(SubSeq(bits, 1, Len(bits) - 1)) + bits[Len(bits)]

\* the bits of bits * w + carry for w < 2^18 and carry < w, by long
\* multiplication 12 bits at a time; there may be zeros in front
RECURSIVE MulBits(_, _, _)
MulBits(bits, w, carry) ==
    IF bits = << >> THEN [k \in 1 .. 18 |-> (carry \div 2 ^ (18 - k)) % 2]
    ELSE LET n == Len(bits)
             lo == IF n > 12 THEN n - 11 ELSE 1
             t == ValueOfBits(SubSeq(bits, lo, n)) * w + carry
             width == n - lo + 1
         IN  MulBits(SubSeq(bits, 1, lo - 1), w, t \div 2 ^ width)
                 \o [k \in 1 .. width |-> ((t % 2 ^ width) \div 2 ^ (width - k)) % 2]

\* w * y in float64, for an integer w >= 1 and a float64 y > 0
TimesInteger(w, y) ==
    LET product == MulBits(y.m, w, 0)
        z == LeadingZeros(product)
    IN  RoundBits(SubSeq(product, z + 1, Len(product)),
                  y.e + (Len(product) - z - MANTISSA_BITS))

\* int(image.shape[1] * (1 - overlap_factor)) for overlap_factor = n / d
TemplateStartFloat(width, n, d) ==
    LET p == TimesInteger(width, OneMinus(FloatOfFraction(n, d)))
    IN  IF p.e <= 0 THEN 0 ELSE ValueOfBits(SubSeq(p.m, 1, p.e))

\* generate_template(image, overlap_factor) for an image of the given shape:
\* image[:, start:], as the rows and columns it keeps
generate_template(image_shape, n, d) ==
    [rows |-> 0 .. image_shape[1] - 1,
     columns |-> TemplateStartFloat(image_shape[2], n, d) .. image_shape[2] - 1]

----------------------------------------------------------------------------
(* bin_image, the same in beam_shift_main.py and tiling/main.py *)

ValueError == [raised |-> TRUE, shape |-> << 0, 0 >>]

\* the frame is cut down to whole blocks instead of being refused
bin_image_truncating(image_shape, bin_factor) ==
    [raised |-> FALSE,
     shape |-> << image_shape[1] \div bin_factor, image_shape[2] \div bin_factor >>]

\* image.reshape(256, bin_factor, 256, bin_factor) needs an array of exactly
\* 256 * bin_factor * 256 * bin_factor elements and raises ValueError for any
\* other; the sum over axes 1 and 3 leaves 256 by 256
bin_image(image_shape, bin_factor) ==
    IF image_shape[1] * image_shape[2] = BINNED_SIDE * bin_factor * BINNED_SIDE * bin_factor
    THEN [raised |-> FALSE, shape |-> << BINNED_SIDE, BINNED_SIDE >>]
    ELSE ValueError

\* The content of a frame.  A frame of side N is given by its pixels,
\* PixelAt(image, r, c) for r, c in 0 .. N - 1; the frames tried are ramps
\* over a checkerboard, image = [base, kr, kc, chk]
PixelAt(image, r, c) == image.base + image.kr * r + image.kc * c + image.chk * ((r + c) % 2)

\* element k of the frame of side N read in C order, as reshape reads it
FlatAt(image, N, k) == PixelAt(image, k \div N, k % N)

\* the axes are taken as (bin_factor, 256, bin_factor, 256)
ReshapeIndexBlocksFirst(bin_factor, i, a, j, b) ==
    ((a * BINNED_SIDE + i) * bin_factor + b) * BINNED_SIDE + j

\* the C-order position of element [i, a, j, b] of
\* image.reshape(256, bin_factor, 256, bin_factor)
ReshapeIndex(bin_factor, i, a, j, b) ==
    ((i * bin_factor + a) * BINNED_SIDE + j) * bin_factor + b

RECURSIVE SumRange(_, _, _)
SumRange(f, lo, hi) == IF lo > hi THEN 0 ELSE f[lo] + SumRange(f, lo + 1, hi)

\* cell (i, j) of bin_image(image, bin_factor) for an accepted frame:
\* np.sum(binned_img, axis=(1, 3)) / (bin_factor * bin_factor), kept as the
\* fraction num / den
bin_image_cell(image, bin_factor, i, j) ==
    LET N == BINNED_SIDE * bin_factor
        Axis == 0 .. bin_factor - 1
        Inner ==
            [a \in Axis |->
                SumRange([b \in Axis |-> FlatAt(image, N, ReshapeIndex(bin_factor, i, a, j, b))],
                         0, bin_factor - 1)]
    IN  [num |-> SumRange(Inner, 0, bin_factor - 1), den |-> bin_factor * bin_factor]

----------------------------------------------------------------------------
(* The angle self-calibration loop, beam_shift_main.py *)

original_beam_shift == Point(0, 0)

\* shape of a binned frame and of the template cut from it
BinnedShape == bin_image(<< IMAGE_SIZE, IMAGE_SIZE >>, BIN_FACTOR).shape
TemplateShape == << BINNED_SIDE, BINNED_SIDE - TemplateStart(BINNED_SIDE) >>

\* the test at the top of the loop is > instead of >=
GuardExhaustedLate(g) == g > GUARD_LIMIT
\* if guard_counter >= 5: break
GuardExhausted(g) == g >= GUARD_LIMIT

\* the frames are taken from the front of the list
RoundFramesStale(list) == << list[1], list[2] >>
\* full_template_img = images_list[-2]; current_img = images_list[-1]
RoundFrames(list) == << list[Len(list) - 1], list[Len(list)] >>

\* lines 392-407: the correction angle from the translation vector.  The
\* script's coordinates are binned pixels and halves of them; here they are
\* multiplied by GeomScale = 2 * BIN_FACTOR, which makes them integers.
GeomScale == 2 * BIN_FACTOR
\* the angle is measured to the template match instead of the centre of the
\* second frame
probe_correction_angle_to_match(translation_vector) ==
    calculate_signed_angle_between_vectors(
        << 2 * DESIRED_SHIFT_PX, 0 >>,
        << GeomScale * translation_vector[1] + 2 * DESIRED_SHIFT_PX,
           GeomScale * translation_vector[2] >>)
probe_correction_angle(translation_vector) ==
    LET center_im_2_desired_coord == << IMAGE_SIZE, IMAGE_SIZE >>
        center_im_1_starting_coord ==
            << center_im_2_desired_coord[1] - 2 * DESIRED_SHIFT_PX,
               center_im_2_desired_coord[2] >>
        template_match_coord ==
            << center_im_2_desired_coord[1] + GeomScale * translation_vector[1],
               center_im_2_desired_coord[2] + GeomScale * translation_vector[2] >>
        center_im_2_actual_coord ==
            << template_match_coord[1]
                 + (IMAGE_SIZE * (OVERLAP_DEN - OVERLAP_NUM)) \div OVERLAP_DEN,
               template_match_coord[2] >>
        desired == << center_im_2_desired_coord[1] - center_im_1_starting_coord[1],
                      center_im_2_desired_coord[2] - center_im_1_starting_coord[2] >>
        actual  == << center_im_2_actual_coord[1] - center_im_1_starting_coord[1],
                      center_im_2_actual_coord[2] - center_im_1_starting_coord[2] >>
    IN  calculate_signed_angle_between_vectors(desired, actual)

\* the tolerance itself counts as converged
ConvergedInclusive(c) == ~c.nan /\ Abs(c.val) <= CONVERGENCE_TOLERANCE
\* abs(correction_angle) < 0.5; a comparison with nan is False.  An angle is
\* held in whole thousandths, cut towards 0, so val = 500 stands for the
\* angles from 0.5 up to 0.501
Converged(c) == ~c.nan /\ Abs(c.val) < CONVERGENCE_TOLERANCE

\* the right operand is dropped
FAddLeft(a, b) == a
\* float addition
FAdd(a, b) == IF a.nan \/ b.nan THEN NaN ELSE Num(a.val + b.val)

\* sum(correction_angle_list)
RECURSIVE FSum(_)
FSum(list) == IF list = << >> THEN Num(0) ELSE FAdd(list[1], FSum(Tail(list)))

\* the list keeps the last correction only
RecordCorrectionLastOnly(list, c) == << c >>
\* correction_angle_list.append(correction_angle)
RecordCorrection(list, c) == Append(list, c)

\* a line printed by the script: its text and the number formatted into it
Message(text, value) == [text |-> text, value |-> value]

\* the finally block closes the valves (line 432 is not commented out)
FinallyValvesClosed == "closed"
\* line 432, # microscope.vacuum.column_valves.close(): the valves stay as
\* they are
FinallyValves == column_valves

\* the deflection is left as it is
FinallyBeamShiftKept == beam_shift
\* finally: microscope.optics.deflectors.beam_shift = Point(0,0)
FinallyBeamShift == Point(0, 0)

(* The instrument.  A "free" instrument may raise from any call and its
   frames correlate anywhere; a "misaligned" one is the test stub: it never
   raises, its true image-to-beam angle is T, so a deflection b moves the
   field of view by beam_to_image_shift(b, PIXEL_SIZE, T) pixels, and the
   correlation of two of its frames peaks exactly where the template lies in
   the second frame, also when that is outside the frame.  Besides the
   misalignments in steps there is the reversed instrument, T = 180 degrees. *)
Misalignments ==
    { k * MisalignStepDeg * UnitsPerDegree : k \in -MaxMisalignSteps .. MaxMisalignSteps }
        \cup { 180 * UnitsPerDegree }
Instruments ==
    { [kind |-> "free", T |-> 0] } \cup { [kind |-> "misaligned", T |-> t] : t \in Misalignments }

\* the peak of correlate2d(current, template, 'full') for two frames of the stub
StubPeak(reference, shifted, T) ==
    LET p1 == beam_to_image_shift(reference.beam, PIXEL_SIZE, T)
        p2 == beam_to_image_shift(shifted.beam, PIXEL_SIZE, T)
        \* the displacement of the field of view in binned pixels, to the pixel
        dx == RoundDiv(p2[1] - p1[1], BIN_FACTOR * TRIG_SCALE)
        dy == RoundDiv(p2[2] - p1[2], BIN_FACTOR * TRIG_SCALE)
        \* the template is cut at (0, TemplateStart) and its content moves by -(dx, dy)
        top  == 0 - dy
        left == TemplateStart(BINNED_SIDE) - dx
    IN  << top + TemplateShape[1] - 1, left + TemplateShape[2] - 1 >>

\* peaks a free instrument's frames may give: the template found where it is
\* expected, one and two binned pixels off, far off, at the right edge of the
\* correlation surface, and
\* one row up or down at 114.5 binned pixels, which is a correction of 0.5004
\* degrees either way
FreePeaks ==
    LET th == TemplateShape[1] - 1
        tw == TemplateShape[2] - 1
    IN  { << th, tw >>, << th + 1, tw >>, << th - 2, tw + 1 >>, << th + 31, tw + 3 >>,
          << th, FullShape(BinnedShape, TemplateShape)[2] - 1 >>,
          << th + 1, tw - BINNED_SIDE \div 4 >>, << th - 1, tw - BINNED_SIDE \div 4 >> }

StartAngles == { 0, -44700 }

NoResult == [status |-> "none", value |-> << >>, error |-> "none"]

MerIdle ==
    /\ m_pc = "off"
    /\ test_mode = FALSE
    /\ connected = FALSE
    /\ m_op = [kind |-> "none", name |-> "", arguments |-> << >>, returns |-> FALSE]
    /\ command_string = << >>
    /\ return_data = << >>
    /\ sends = 0
    /\ connects = 0
    /\ transport_failures = 0
    /\ m_result = NoResult
    /\ m_printed = << >>

\* tiling/main.py line 105
original_stage_pos == << 0, 0 >>

TileIdle ==
    /\ tile_pc = "off"
    /\ grid = [rows |-> 0, cols |-> 0]
    /\ ti = 0 /\ tj = 0
    /\ tile_images_list = << >>
    /\ adornedImage_list = << >>
    /\ desired_abs_stage_pos = original_stage_pos
    /\ stage_pos = original_stage_pos
    /\ stage_error = << 0, 0 >>
    /\ correction_attempts = 0
    /\ tile_peak = << 0, 0 >>
    /\ tile_used = << >>
    /\ tile_pipeline = << >>
    /\ tile_moves = << >>
    /\ seam_estimates = 0
    /\ seam_reacquired = 0
    /\ seam_exit = "none"
    /\ seams_entered = << >>
    /\ frames_acquired = 0
    /\ tile_valves = "closed"

CalIdle ==
    /\ cal_pc = "off"
    /\ guard_counter = 0
    /\ image_to_beam_shift_angle = Num(0)
    /\ correction_angle_list = << >>
    /\ images_list = << >>
    /\ beam_shift = original_beam_shift
    /\ is_moving = FALSE
    /\ column_valves = "closed"
    /\ instrument = [kind |-> "free", T |-> 0]
    /\ peak_index = << 0, 0 >>
    /\ used_frames = << >>
    /\ correction_angle = Num(0)
    /\ probe_commands = 0
    /\ exit_path = "none"
    /\ printed = << >>
    /\ commands = << >>

FnIdle ==
    /\ fn = "none"
    /\ args = << >>
    /\ step = "none"
    /\ out = << >>

\* lines 276-298: the valves are open, the lists and the counter initialised
InitCalibration ==
    /\ FnIdle
    /\ TileIdle
    /\ MerIdle
    /\ cal_pc = "loop_top"
    /\ guard_counter = 0
    /\ \E a \in StartAngles :
          /\ image_to_beam_shift_angle = Num(a)
          /\ correction_angle_list = << Num(a) >>
    /\ images_list = << >>
    /\ beam_shift \in { original_beam_shift, Point(TRIG_SCALE, -TRIG_SCALE) }
    /\ is_moving = FALSE
    /\ column_valves = "open"
    /\ instrument \in Instruments
    /\ peak_index = << 0, 0 >>
    /\ used_frames = << >>
    /\ correction_angle = Num(0)
    /\ probe_commands = 0
    /\ exit_path = "none"
    /\ printed = << >>
    /\ commands = << >>

\* original_stage_pos = microscope.specimen.stage.position, line 288
original_stage_position == Point(0, 0)

\* an instrument command and its argument
Command(cmd, arg) == [cmd |-> cmd, arg |-> arg]

\* the target grows with the round
translation_vector_xy_per_round == << DESIRED_SHIFT_PX * guard_counter, 0 >>
\* translation_vector_xy = np.array([[DESIRED_SHIFT_PX, 0]]).T
translation_vector_xy == << DESIRED_SHIFT_PX, 0 >>

Frame(kind) ==
    [id |-> Len(images_list) + 1, round |-> guard_counter, kind |-> kind, beam |-> beam_shift]

\* lines 302-308
CalLoopTop ==
    /\ cal_pc = "loop_top"
    /\ IF GuardExhausted(guard_counter)
       THEN /\ cal_pc' = "finally"
            /\ exit_path' = "exhausted"
            /\ UNCHANGED << guard_counter, commands >>
       ELSE /\ guard_counter' = guard_counter + 1
            /\ cal_pc' = "reset"
            /\ commands' = << >>
            /\ UNCHANGED exit_path
    /\ UNCHANGED << fnVars, tileVars, merVars, image_to_beam_shift_angle, correction_angle_list, images_list,
                    beam_shift, is_moving, column_valves, instrument, peak_index,
                    used_frames, correction_angle, probe_commands >>
    /\ UNCHANGED printed

\* lines 311-312: the stage is sent back and may take time to get there
CalReset ==
    /\ cal_pc = "reset"
    /\ is_moving' \in BOOLEAN
    /\ beam_shift' = original_beam_shift
    /\ cal_pc' = "wait"
    /\ UNCHANGED << fnVars, tileVars, merVars, guard_counter, image_to_beam_shift_angle, correction_angle_list,
                    images_list, column_valves, instrument, peak_index, used_frames,
                    correction_angle, probe_commands, exit_path >>
    /\ UNCHANGED printed
    /\ commands' = commands \o << Command("stage.absolute_move", original_stage_position),
                                  Command("beam_shift", original_beam_shift) >>

\* the stage reaches its position
StageSettles ==
    /\ cal_pc # "off"
    /\ is_moving
    /\ is_moving' = FALSE
    /\ UNCHANGED << fnVars, tileVars, merVars, cal_pc, guard_counter, image_to_beam_shift_angle,
                    correction_angle_list, images_list, beam_shift, column_valves,
                    instrument, peak_index, used_frames, correction_angle,
                    probe_commands, exit_path >>
    /\ UNCHANGED << printed, commands >>

\* the wait is left at once
WaitOverAtOnce(moving) == TRUE
\* while microscope.specimen.stage.is_moving: time.sleep(0.5)
WaitOver(moving) == ~moving

\* lines 315-316: the busy wait is left when is_moving reads False
CalWaitStage ==
    /\ cal_pc = "wait"
    /\ WaitOver(is_moving)
    /\ cal_pc' = "acquire_reference"
    /\ UNCHANGED << fnVars, tileVars, merVars, guard_counter, image_to_beam_shift_angle, correction_angle_list,
                    images_list, beam_shift, is_moving, column_valves, instrument,
                    peak_index, used_frames, correction_angle, probe_commands, exit_path >>
    /\ UNCHANGED printed
    /\ commands' = Append(commands, Command("stage.is_moving == False", Point(0, 0)))

\* lines 321-330
CalAcquireReference ==
    /\ cal_pc = "acquire_reference"
    /\ images_list' = Append(images_list, Frame("reference"))
    /\ cal_pc' = "shift_beam"
    /\ UNCHANGED << fnVars, tileVars, merVars, guard_counter, image_to_beam_shift_angle, correction_angle_list,
                    beam_shift, is_moving, column_valves, instrument, peak_index,
                    used_frames, correction_angle, probe_commands, exit_path >>
    /\ UNCHANGED printed
    /\ commands' = Append(commands, Command("acquire_stem_image", Point(0, 0)))

\* lines 334-338
CalShiftBeam ==
    /\ cal_pc = "shift_beam"
    /\ beam_shift' = image_to_beam_shift(translation_vector_xy, PIXEL_SIZE,
                                         image_to_beam_shift_angle.val)
    /\ probe_commands' = probe_commands + 1
    /\ cal_pc' = "acquire_shifted"
    /\ UNCHANGED << fnVars, tileVars, merVars, guard_counter, image_to_beam_shift_angle, correction_angle_list,
                    images_list, is_moving, column_valves, instrument, peak_index,
                    used_frames, correction_angle, exit_path >>
    /\ UNCHANGED printed
    /\ commands' = Append(commands, Command("beam_shift", beam_shift'))

\* lines 343-356
CalAcquireShifted ==
    /\ cal_pc = "acquire_shifted"
    /\ images_list' = Append(images_list, Frame("shifted"))
    /\ cal_pc' = "estimate"
    /\ UNCHANGED << fnVars, tileVars, merVars, guard_counter, image_to_beam_shift_angle, correction_angle_list,
                    beam_shift, is_moving, column_valves, instrument, peak_index,
                    used_frames, correction_angle, probe_commands, exit_path >>
    /\ UNCHANGED printed
    /\ commands' = commands \o << Command("acquire_stem_image", Point(0, 0)),
                                  Command("blank", Point(0, 0)) >>

\* lines 359-407: the two frames are binned, preprocessed and correlated; the
\* peak of the correlation is the instrument's, the rest is the script's
CalEstimate ==
    /\ cal_pc = "estimate"
    /\ LET frames == RoundFrames(images_list)
       IN  /\ used_frames' = frames
           /\ \E peak \in IF instrument.kind = "misaligned"
                          THEN { StubPeak(frames[1], frames[2], instrument.T) }
                          ELSE FreePeaks :
                 /\ peak_index' = peak
                 /\ correction_angle' =
                       probe_correction_angle(
                           TranslationFromPeak(peak, FullShape(BinnedShape, TemplateShape)))
    /\ cal_pc' = "decide"
    /\ UNCHANGED << fnVars, tileVars, merVars, guard_counter, image_to_beam_shift_angle, correction_angle_list,
                    images_list, beam_shift, is_moving, column_valves, instrument,
                    probe_commands, exit_path >>
    /\ UNCHANGED << printed, commands >>

\* lines 412-423
CalDecide ==
    /\ cal_pc = "decide"
    /\ IF Converged(correction_angle)
       THEN /\ printed' = Append(printed, Message("optimal angle correction",
                                                  FSum(correction_angle_list)))
            /\ cal_pc' = "finally"
            /\ exit_path' = "converged"
            /\ UNCHANGED << correction_angle_list, image_to_beam_shift_angle >>
       ELSE /\ printed' = Append(printed, Message("correction_angle", correction_angle))
            /\ correction_angle_list' = RecordCorrection(correction_angle_list, correction_angle)
            /\ image_to_beam_shift_angle' = FAdd(image_to_beam_shift_angle, correction_angle)
            /\ cal_pc' = "loop_top"
            /\ UNCHANGED exit_path
    /\ UNCHANGED << fnVars, tileVars, merVars, guard_counter, images_list, beam_shift, is_moving, column_valves,
                    instrument, peak_index, used_frames, correction_angle, probe_commands >>
    /\ UNCHANGED commands

\* a call of the round raises (a free instrument only)
CalRaise ==
    /\ cal_pc \in { "reset", "acquire_reference", "shift_beam", "acquire_shifted", "estimate" }
    /\ instrument.kind = "free"
    /\ cal_pc' = "except"
    /\ exit_path' = "exception"
    /\ UNCHANGED << fnVars, tileVars, merVars, guard_counter, image_to_beam_shift_angle, correction_angle_list,
                    images_list, beam_shift, is_moving, column_valves, instrument,
                    peak_index, used_frames, correction_angle, probe_commands >>
    /\ UNCHANGED << printed, commands >>

\* lines 426-429
CalExcept ==
    /\ cal_pc = "except"
    /\ column_valves' = "closed"
    /\ printed' = Append(printed, Message("Encountered exception, closing column valves",
                                          Num(0)))
    /\ cal_pc' = "finally"
    /\ UNCHANGED << fnVars, tileVars, merVars, guard_counter, image_to_beam_shift_angle, correction_angle_list,
                    images_list, beam_shift, is_moving, instrument, peak_index,
                    used_frames, correction_angle, probe_commands, exit_path >>
    /\ UNCHANGED commands

\* lines 431-436
CalFinally ==
    /\ cal_pc = "finally"
    /\ beam_shift' = FinallyBeamShift
    /\ printed' = Append(printed, Message("final angle", image_to_beam_shift_angle))
    /\ cal_pc' = "done"
    /\ column_valves' = FinallyValves
    /\ UNCHANGED << fnVars, tileVars, merVars, guard_counter, image_to_beam_shift_angle, correction_angle_list,
                    images_list, is_moving, instrument, peak_index,
                    used_frames, correction_angle, probe_commands, exit_path >>
    /\ UNCHANGED commands

NextCalibration ==
    \/ CalLoopTop \/ CalReset \/ StageSettles \/ CalWaitStage \/ CalAcquireReference
    \/ CalShiftBeam \/ CalAcquireShifted \/ CalEstimate \/ CalDecide \/ CalRaise
    \/ CalExcept \/ CalFinally

SpecCalibration == InitCalibration /\ [][NextCalibration]_vars

\* the estimate of lines 359-407 is a computation without a loop: it returns.
\* Among the steps of SpecCalibration the ones that leave "estimate" for
\* "decide" are those of CalEstimate, which is enabled wherever cal_pc is
\* "estimate"
EstimateReturns == cal_pc = "estimate" /\ cal_pc' = "decide"

\* the interpreter runs the statements of the script one after the other
\* without stopping of itself, and a stage that was sent somewhere gets there
SpecCalibrationFair ==
    /\ SpecCalibration
    /\ WF_vars(\/ CalLoopTop \/ CalReset \/ CalWaitStage \/ CalAcquireReference
               \/ CalShiftBeam \/ CalAcquireShifted \/ CalDecide \/ CalExcept
               \/ CalFinally)
    /\ WF_cal_pc(EstimateReturns)
    /\ WF_vars(StageSettles)

----------------------------------------------------------------------------
(* The tile loop and its correction sub-loop, tiling/main.py *)

\* stage coordinates are counted in 1/OVERLAP_DEN of the pixel size, which
\* makes DESIRED_RELATIVE_SHIFT = IMAGE_SIZE * (1 - OVERLAP_FACTOR) * PIXEL_SIZE
\* an integer
PosUnitsPerPixel == OVERLAP_DEN * PIXEL_SIZE
DESIRED_RELATIVE_SHIFT == IMAGE_SIZE * (OVERLAP_DEN - OVERLAP_NUM) * PIXEL_SIZE

\* the peaks cross_correlate may return for two binned tiles: any index of the
\* valid correlation surface; a few of its columns are tried
TilePeaks ==
    LET shape == ValidShape(BinnedShape, TemplateShape)
    IN  { p \in (0 .. shape[1] - 1) \X { 0, SHIFT_TOLERANCE_PIXELS, SHIFT_TOLERANCE_PIXELS + 1,
                                         shape[2] - 1 } : TRUE }

\* where absolute_move of this stage lands relative to the position asked for
StageErrors == { << 0, 0 >>, << 30, -20 >>, << -30, 20 >> }

\* the tolerance itself is not accepted
WithinToleranceExclusive(peak) ==
    Abs(peak[1]) < SHIFT_TOLERANCE_PIXELS /\ Abs(peak[2]) < SHIFT_TOLERANCE_PIXELS
\* abs(peak_index[0]) <= SHIFT_TOLERANCE_PIXELS and abs(peak_index[1]) <= SHIFT_TOLERANCE_PIXELS
WithinTolerance(peak) ==
    Abs(peak[1]) <= SHIFT_TOLERANCE_PIXELS /\ Abs(peak[2]) <= SHIFT_TOLERANCE_PIXELS

\* the budget test stops one attempt short
AttemptsExhaustedEarly(n) == n = RETRY_BUDGET - 1
\* the budget test lets one more attempt through
AttemptsExhaustedLate(n) == n = RETRY_BUDGET + 1
\* if correction_attempts == 10: break
AttemptsExhausted(n) == n = RETRY_BUDGET

\* lines 98-108: connected, the valves open, the lists empty
InitTiling ==
    /\ FnIdle
    /\ CalIdle
    /\ MerIdle
    /\ tile_pc = "acquire"
    /\ grid \in [rows : 1 .. MaxRows, cols : 1 .. MaxCols]
    /\ ti = 0 /\ tj = 0
    /\ tile_images_list = << >>
    /\ adornedImage_list = << >>
    /\ desired_abs_stage_pos = original_stage_pos
    /\ stage_pos = original_stage_pos
    /\ stage_error \in StageErrors
    /\ correction_attempts = 0
    /\ tile_peak = << 0, 0 >>
    /\ tile_used = << >>
    /\ tile_pipeline = << >>
    /\ tile_moves = << >>
    /\ seam_estimates = 0
    /\ seam_reacquired = 0
    /\ seam_exit = "none"
    /\ seams_entered = << >>
    /\ frames_acquired = 0
    /\ tile_valves = "open"

\* the stage position recorded with the last stored frame
LastStagePosition == adornedImage_list[Len(adornedImage_list)].stage_position

\* lines 115-139
DesiredPosition ==
    IF ti = 0 /\ tj = 0 THEN original_stage_pos
    ELSE IF tj = 0
         THEN << original_stage_pos[1], LastStagePosition[2] + DESIRED_RELATIVE_SHIFT >>
         ELSE << LastStagePosition[1] + DESIRED_RELATIVE_SHIFT, LastStagePosition[2] >>

\* lines 113-151: one pass of the body of the column loop: the stage is sent
\* to the desired position, a frame is acquired and stored
TileAcquire ==
    /\ tile_pc = "acquire"
    /\ desired_abs_stage_pos' = DesiredPosition
    /\ stage_pos' = << DesiredPosition[1] + stage_error[1],
                      DesiredPosition[2] + stage_error[2] >>
    /\ frames_acquired' = frames_acquired + 1
    /\ tile_images_list' = Append(tile_images_list, frames_acquired')
    /\ adornedImage_list' = Append(adornedImage_list,
                                   [data |-> frames_acquired', stage_position |-> stage_pos',
                                    row |-> ti, col |-> tj])
    /\ IF tj + 1 < grid.cols
       THEN tj' = tj + 1 /\ tile_pc' = "acquire"
       ELSE tj' = tj /\ tile_pc' = "after_columns"
    /\ UNCHANGED << fnVars, calVars, merVars, grid, stage_error, tile_pipeline, seams_entered, ti, correction_attempts, tile_peak,
                    tile_used, tile_moves, seam_estimates, seam_reacquired, seam_exit,
                    tile_valves >>

\* line 111: the next pass of the row loop, or line 241 after the last
NextRowPc == IF ti + 1 < grid.rows THEN "acquire" ELSE "close"
NextRowI == IF ti + 1 < grid.rows THEN ti + 1 ELSE ti
NextRowJ == IF ti + 1 < grid.rows THEN 0 ELSE tj

\* lines 153-156, after the column loop of a row
TileAfterColumns ==
    /\ tile_pc = "after_columns"
    /\ IF tj > 0
       THEN /\ correction_attempts' = 0
            /\ seam_estimates' = 0
            /\ seam_reacquired' = 0
            /\ seam_exit' = "none"
            /\ seams_entered' = Append(seams_entered, << ti, tj >>)
            /\ tile_pc' = "estimate"
            /\ UNCHANGED << ti, tj >>
       ELSE /\ tile_pc' = NextRowPc
            /\ ti' = NextRowI
            /\ tj' = NextRowJ
            /\ UNCHANGED << correction_attempts, seam_estimates, seam_reacquired, seam_exit,
                            seams_entered >>
    /\ UNCHANGED << fnVars, calVars, merVars, grid, stage_error, tile_pipeline, tile_images_list, adornedImage_list,
                    desired_abs_stage_pos, stage_pos, tile_peak, tile_used,
                    tile_moves, frames_acquired, tile_valves >>

\* lines 163-170: the calls made on the two frames between reading them from
\* the list and the tolerance test; each entry is the function and the frame
\* it is applied to
EstimatePipeline ==
    << << "bin_image", "full_template_img" >>, << "bin_image", "current_img" >>,
       << "generate_template", "full_template_img" >>, << "cross_correlate", "current_img" >> >>

\* lines 160-181: the last two stored frames are binned, the template is cut
\* from the earlier one and correlated with the later one
TileEstimate ==
    /\ tile_pc = "estimate"
    /\ tile_used' = << tile_images_list[Len(tile_images_list) - 1],
                       tile_images_list[Len(tile_images_list)] >>
    /\ tile_pipeline' = EstimatePipeline
    /\ seam_estimates' = seam_estimates + 1
    /\ \E peak \in TilePeaks :
          /\ tile_peak' = peak
          /\ IF WithinTolerance(peak)
             THEN /\ seam_exit' = "accepted"
                  /\ tile_pc' = NextRowPc
                  /\ ti' = NextRowI
                  /\ tj' = NextRowJ
             ELSE /\ tile_pc' = "correct"
                  /\ UNCHANGED << seam_exit, ti, tj >>
    /\ UNCHANGED << fnVars, calVars, merVars, grid, stage_error, seams_entered, tile_images_list, adornedImage_list,
                    desired_abs_stage_pos, stage_pos, correction_attempts,
                    tile_moves, seam_reacquired, frames_acquired, tile_valves >>

\* lines 185-220: the two relative moves of the piezo stage
relative_overshift_x == tile_peak[2] * BIN_FACTOR * PosUnitsPerPixel
relative_overshift_y == tile_peak[1] * BIN_FACTOR * PosUnitsPerPixel
\* the moves go the way the stage is already off
CorrectiveMovesSameWay ==
    LET current_image_stage_pos == LastStagePosition
    IN  << [axis |-> "x",
            delta |-> IF current_image_stage_pos[1] > desired_abs_stage_pos[1]
                      THEN relative_overshift_x ELSE -relative_overshift_x],
           [axis |-> "y",
            delta |-> IF current_image_stage_pos[2] > desired_abs_stage_pos[2]
                      THEN relative_overshift_y ELSE -relative_overshift_y] >>
\* lines 193-219
CorrectiveMoves ==
    LET current_image_stage_pos == LastStagePosition
    IN  << [axis |-> "x",
            delta |-> IF current_image_stage_pos[1] > desired_abs_stage_pos[1]
                      THEN -relative_overshift_x ELSE relative_overshift_x],
           [axis |-> "y",
            delta |-> IF current_image_stage_pos[2] > desired_abs_stage_pos[2]
                      THEN -relative_overshift_y ELSE relative_overshift_y] >>

\* the re-acquired frame takes the place of the template tile
ReplaceLastButOne(list, frame) == [list EXCEPT ![Len(list) - 1] = frame]
\* the re-acquired frame is stored as one more tile
ReplaceLastAppended(list, frame) == Append(list, frame)
\* images_list[-1] = haadf_data, adornedImage_list[-1] = haadf_read_only
ReplaceLast(list, frame) == [list EXCEPT ![Len(list)] = frame]

\* lines 183-239: the corrective moves, the re-acquisition that replaces the
\* last stored frame, and the count of the attempt
TileCorrect ==
    /\ tile_pc = "correct"
    /\ tile_moves' = CorrectiveMoves
    /\ frames_acquired' = frames_acquired + 1
    /\ seam_reacquired' = seam_reacquired + 1
    /\ tile_images_list' = ReplaceLast(tile_images_list, frames_acquired')
    /\ adornedImage_list' =
          ReplaceLast(adornedImage_list,
                      [data |-> frames_acquired', stage_position |-> stage_pos,
                       row |-> adornedImage_list[Len(adornedImage_list)].row,
                       col |-> adornedImage_list[Len(adornedImage_list)].col])
    /\ correction_attempts' = correction_attempts + 1
    /\ IF AttemptsExhausted(correction_attempts')
       THEN /\ seam_exit' = "no_solution"
            /\ tile_pc' = NextRowPc
            /\ ti' = NextRowI
            /\ tj' = NextRowJ
       ELSE /\ tile_pc' = "estimate"
            /\ UNCHANGED << seam_exit, ti, tj >>
    /\ UNCHANGED << fnVars, calVars, merVars, grid, stage_error, tile_pipeline, seams_entered, desired_abs_stage_pos, stage_pos, tile_peak,
                    tile_used, seam_estimates, tile_valves >>

\* line 241
TileClose ==
    /\ tile_pc = "close"
    /\ tile_valves' = "closed"
    /\ tile_pc' = "display"
    /\ UNCHANGED << fnVars, calVars, merVars, grid, stage_error, tile_pipeline, seams_entered, ti, tj, tile_images_list, adornedImage_list,
                    desired_abs_stage_pos, stage_pos, correction_attempts,
                    tile_peak, tile_used, tile_moves, seam_estimates, seam_reacquired,
                    seam_exit, frames_acquired >>

\* lines 243-257: the grid is plotted; plt.savefig() is called without a file
\* name, which raises TypeError (and axes[row, column] raises IndexError before
\* that when the grid has one row or one column)
TileDisplay ==
    /\ tile_pc = "display"
    /\ tile_pc' = "except"
    /\ UNCHANGED << fnVars, calVars, merVars, grid, stage_error, tile_pipeline, seams_entered, ti, tj, tile_images_list, adornedImage_list,
                    desired_abs_stage_pos, stage_pos, correction_attempts,
                    tile_peak, tile_used, tile_moves, seam_estimates, seam_reacquired,
                    seam_exit, frames_acquired, tile_valves >>

\* a call of the instrument raises inside the try block
TileRaise ==
    /\ tile_pc \in { "acquire", "estimate", "correct", "close" }
    /\ tile_pc' = "except"
    /\ UNCHANGED << fnVars, calVars, merVars, grid, stage_error, tile_pipeline, seams_entered, ti, tj, tile_images_list, adornedImage_list,
                    desired_abs_stage_pos, stage_pos, correction_attempts,
                    tile_peak, tile_used, tile_moves, seam_estimates, seam_reacquired,
                    seam_exit, frames_acquired, tile_valves >>

\* lines 259-262
TileExcept ==
    /\ tile_pc = "except"
    /\ tile_valves' = "closed"
    /\ stage_pos' = original_stage_pos
    /\ tile_pc' = "done"
    /\ UNCHANGED << fnVars, calVars, merVars, grid, stage_error, tile_pipeline, seams_entered, ti, tj, tile_images_list, adornedImage_list,
                    desired_abs_stage_pos, correction_attempts, tile_peak,
                    tile_used, tile_moves, seam_estimates, seam_reacquired, seam_exit,
                    frames_acquired >>

NextTiling ==
    \/ TileAcquire \/ TileAfterColumns \/ TileEstimate \/ TileCorrect
    \/ TileClose \/ TileDisplay \/ TileRaise \/ TileExcept

SpecTiling == InitTiling /\ [][NextTiling]_vars

----------------------------------------------------------------------------
(* MerlinInterface, simultaneous_signal_acquisition/merlin_interface.py *)

\* A byte string of the protocol is held as the sequence of its
\* comma-separated fields; JoinFields gives the bytes
RECURSIVE JoinFields(_)
JoinFields(fields) ==
    IF fields = << >> THEN ""
    ELSE IF Len(fields) = 1 THEN fields[1]
    ELSE fields[1] \o "," \o JoinFields(Tail(fields))

DecimalDigits == << "0", "1", "2", "3", "4", "5", "6", "7", "8", "9" >>

\* str(n) of a natural number
RECURSIVE ToDecimal(_)
ToDecimal(n) ==
    IF n < 10 THEN DecimalDigits[n + 1]
    ELSE ToDecimal(n \div 10) \o DecimalDigits[(n % 10) + 1]

\* str.zfill(width)
RECURSIVE ZFill(_, _)
ZFill(str, width) == IF Len(str) >= width THEN str ELSE ZFill("0" \o str, width)

message_preamble == "MPX"
\* zfill(10)
LENGTH_DIGITS == 10

\* the length field counts the bytes after its comma
make_message_string_payload_length(command_name, command_type, command_argument_list) ==
    LET command_string_list == << command_type, command_name >> \o command_argument_list
    IN  << message_preamble,
           ZFill(ToDecimal(Len(JoinFields(command_string_list))), LENGTH_DIGITS) >>
            \o command_string_list
\* _make_message_string(command_name, command_type, command_argument_list)
make_message_string(command_name, command_type, command_argument_list) ==
    LET command_string_list == << command_type, command_name >> \o command_argument_list
        command_len_string ==
            ZFill(ToDecimal(Len(JoinFields(command_string_list)) + 1), LENGTH_DIGITS)
    IN  << message_preamble, command_len_string >> \o command_string_list

\* int(return_data.decode()[-1]) of a response whose last field is one digit
ResponseCode(response) ==
    CHOOSE d \in 0 .. 9 : DecimalDigits[d + 1] = response[Len(response)]

\* the response code is looked at before the command name
check_packet_response_code_first(command, response) ==
    IF response = << >> THEN "IndexError"
    ELSE IF \A d \in 1 .. 10 : DecimalDigits[d] # response[Len(response)] THEN "ValueError"
    ELSE IF ResponseCode(response) = 3 THEN "ValueError"
    ELSE IF ResponseCode(response) \in { 1, 2 } THEN "Exception"
    ELSE IF \A k \in 1 .. Len(response) : response[k] # command[4] THEN "Exception"
    ELSE "none"
\* _check_packet_response: the exception it raises, "none" if it returns
check_packet_response(command, response) ==
    IF response = << >> THEN "IndexError"
    ELSE IF \A d \in 1 .. 10 : DecimalDigits[d] # response[Len(response)] THEN "ValueError"
    ELSE IF \A k \in 1 .. Len(response) : response[k] # command[4] THEN "Exception"
    ELSE IF ResponseCode(response) = 3 THEN "ValueError"
    ELSE IF ResponseCode(response) \in { 1, 2 } THEN "Exception"
    ELSE "none"

\* some of the methods and properties of the class: what they send, and
\* whether they hand the response back to the caller
MerlinOps ==
    { [kind |-> "CMD", name |-> "STARTACQUISITION", arguments |-> << >>, returns |-> FALSE],
      [kind |-> "CMD", name |-> "STOPACQUISITION", arguments |-> << >>, returns |-> FALSE],
      [kind |-> "GET", name |-> "SOFTWAREVERSION", arguments |-> << >>, returns |-> TRUE],
      [kind |-> "GET", name |-> "THRESHOLD6", arguments |-> << >>, returns |-> FALSE],
      [kind |-> "GET", name |-> "THRESHOLD7", arguments |-> << >>, returns |-> TRUE],
      [kind |-> "SET", name |-> "THRESHOLD0", arguments |-> << "40" >>, returns |-> FALSE],
      [kind |-> "SET", name |-> "FILEDIRECTORY", arguments |-> << "data" >>,
       returns |-> FALSE] }

\* what socket.recv may give for a command: the command echoed with a response
\* code, responses without the command name, one that does not end in a
\* digit, and the empty string of a closed connection
Responses(command) ==
    { << "MPX", command[3], command[4], code >> : code \in { "0", "1", "2", "3", "4" } }
      \cup { << "MPX", command[3], "OTHER", code >> : code \in { "0", "3" } }
      \cup { << "MPX", "x" >>, << >> }

\* how a call of socket.send, socket.recv or socket.connect ends: it returns,
\* raises socket.timeout or ConnectionError, or raises another OSError
SocketOutcomes == { "ok", "transport", "oserror" }

Raised(error) == [status |-> "raised", value |-> << >>, error |-> error]

\* MerlinInterface(test_mode=...), lines 53-60
InitMerlin ==
    /\ FnIdle
    /\ CalIdle
    /\ TileIdle
    /\ m_pc = "idle"
    /\ test_mode \in BOOLEAN
    /\ connected = FALSE
    /\ m_op = [kind |-> "none", name |-> "", arguments |-> << >>, returns |-> FALSE]
    /\ command_string = << >>
    /\ return_data = << >>
    /\ sends = 0
    /\ connects = 0
    /\ transport_failures = 0
    /\ m_result = NoResult
    /\ m_printed = << >>

\* test mode is not looked at: the socket is used in every mode
send_packet_entry_socket(mode) == "ensure_connected"
\* lines 105-108: the branch of _send_packet on self.test_mode
send_packet_entry(mode) == IF mode THEN "test_reply" ELSE "ensure_connected"

\* a method is called or a property read or set: the message is built and
\* _send_packet entered, lines 104-108
MerlinCall ==
    /\ m_pc = "idle"
    /\ \E op \in MerlinOps :
          /\ m_op' = op
          /\ command_string' = make_message_string(op.name, op.kind, op.arguments)
    /\ return_data' = << >>
    /\ sends' = 0
    /\ connects' = 0
    /\ transport_failures' = 0
    /\ m_result' = NoResult
    /\ m_printed' = << >>
    /\ m_pc' = send_packet_entry(test_mode)
    /\ UNCHANGED << fnVars, calVars, tileVars, test_mode, connected >>

\* line 106
MerlinTestReply ==
    /\ m_pc = "test_reply"
    /\ return_data' = Append(command_string, "0")
    /\ m_pc' = "check"
    /\ UNCHANGED << fnVars, calVars, tileVars, test_mode, connected, m_op, command_string,
                    sends, connects, transport_failures, m_result, m_printed >>

\* lines 108, 121-123 and 70-72: outside the try block
MerlinEnsureConnected ==
    /\ m_pc = "ensure_connected"
    /\ IF connected
       THEN /\ m_pc' = "send"
            /\ UNCHANGED << connected, connects, transport_failures, m_result >>
       ELSE /\ connects' = connects + 1
            /\ \E outcome \in SocketOutcomes :
                  IF outcome = "ok"
                  THEN /\ connected' = TRUE
                       /\ m_pc' = "send"
                       /\ UNCHANGED << transport_failures, m_result >>
                  ELSE /\ m_pc' = "idle"
                       /\ m_result' = Raised(outcome)
                       /\ transport_failures' =
                             transport_failures + (IF outcome = "transport" THEN 1 ELSE 0)
                       /\ UNCHANGED connected
    /\ UNCHANGED << fnVars, calVars, tileVars, test_mode, m_op, command_string, return_data,
                    sends, m_printed >>

\* where a transport failure of the retry goes: it is retried again
RetryFailurePcAgain == "reconnect"
\* lines 114-115 are not inside a try block: the failure propagates
RetryFailurePc == "idle"

\* line 110
MerlinSend ==
    /\ m_pc = "send"
    /\ sends' = sends + 1
    /\ \E outcome \in SocketOutcomes :
          CASE outcome = "ok" ->
                 /\ m_pc' = "recv"
                 /\ UNCHANGED << transport_failures, m_result >>
            [] outcome = "transport" ->
                 /\ m_pc' = "reconnect"
                 /\ transport_failures' = transport_failures + 1
                 /\ UNCHANGED m_result
            [] outcome = "oserror" ->
                 /\ m_pc' = "idle"
                 /\ m_result' = Raised(outcome)
                 /\ UNCHANGED transport_failures
    /\ UNCHANGED << fnVars, calVars, tileVars, test_mode, connected, m_op, command_string,
                    return_data, connects, m_printed >>

\* lines 111-112
MerlinRecv ==
    /\ m_pc = "recv"
    /\ \E outcome \in SocketOutcomes :
          CASE outcome = "ok" ->
                 /\ \E response \in Responses(command_string) : return_data' = response
                 /\ m_pc' = "check"
                 /\ UNCHANGED << transport_failures, m_result >>
            [] outcome = "transport" ->
                 /\ m_pc' = "reconnect"
                 /\ transport_failures' = transport_failures + 1
                 /\ UNCHANGED << return_data, m_result >>
            [] outcome = "oserror" ->
                 /\ m_pc' = "idle"
                 /\ m_result' = Raised(outcome)
                 /\ UNCHANGED << return_data, transport_failures >>
    /\ UNCHANGED << fnVars, calVars, tileVars, test_mode, connected, m_op, command_string,
                    sends, connects, m_printed >>

\* lines 113-114 and 126: _reconnect_and_resend calls _connect
MerlinReconnect ==
    /\ m_pc = "reconnect"
    /\ connects' = connects + 1
    /\ \E outcome \in SocketOutcomes :
          IF outcome = "ok"
          THEN /\ connected' = TRUE
               /\ m_pc' = "resend"
               /\ UNCHANGED << transport_failures, m_result >>
          ELSE /\ m_pc' = "idle"
               /\ m_result' = Raised(outcome)
               /\ transport_failures' =
                     transport_failures + (IF outcome = "transport" THEN 1 ELSE 0)
               /\ UNCHANGED connected
    /\ UNCHANGED << fnVars, calVars, tileVars, test_mode, m_op, command_string, return_data,
                    sends, m_printed >>

\* line 127
MerlinResend ==
    /\ m_pc = "resend"
    /\ sends' = sends + 1
    /\ \E outcome \in SocketOutcomes :
          CASE outcome = "ok" ->
                 /\ m_pc' = "recv_retry"
                 /\ UNCHANGED << transport_failures, m_result >>
            [] outcome = "transport" ->
                 /\ m_pc' = RetryFailurePc
                 /\ m_result' = IF RetryFailurePc = "idle" THEN Raised(outcome) ELSE m_result
                 /\ transport_failures' = transport_failures + 1
            [] outcome = "oserror" ->
                 /\ m_pc' = "idle"
                 /\ m_result' = Raised(outcome)
                 /\ UNCHANGED transport_failures
    /\ UNCHANGED << fnVars, calVars, tileVars, test_mode, connected, m_op, command_string,
                    return_data, connects, m_printed >>

\* line 115
MerlinRecvRetry ==
    /\ m_pc = "recv_retry"
    /\ \E outcome \in SocketOutcomes :
          CASE outcome = "ok" ->
                 /\ \E response \in Responses(command_string) : return_data' = response
                 /\ m_pc' = "check"
                 /\ UNCHANGED << transport_failures, m_result >>
            [] outcome = "transport" ->
                 /\ m_pc' = RetryFailurePc
                 /\ m_result' = IF RetryFailurePc = "idle" THEN Raised(outcome) ELSE m_result
                 /\ transport_failures' = transport_failures + 1
                 /\ UNCHANGED return_data
            [] outcome = "oserror" ->
                 /\ m_pc' = "idle"
                 /\ m_result' = Raised(outcome)
                 /\ UNCHANGED << return_data, transport_failures >>
    /\ UNCHANGED << fnVars, calVars, tileVars, test_mode, connected, m_op, command_string,
                    sends, connects, m_printed >>

\* lines 116-119, and the return of the method or property
MerlinCheck ==
    /\ m_pc = "check"
    /\ LET error == check_packet_response(command_string, return_data)
       IN  IF error # "none"
           THEN /\ m_result' = Raised(error)
                /\ UNCHANGED m_printed
           ELSE /\ m_printed' = IF test_mode THEN return_data ELSE << >>
                /\ m_result' = [status |-> "returned",
                                value |-> IF m_op.returns THEN return_data ELSE << >>,
                                error |-> "none"]
    /\ m_pc' = "idle"
    /\ UNCHANGED << fnVars, calVars, tileVars, test_mode, connected, m_op, command_string,
                    return_data, sends, connects, transport_failures >>

NextMerlin ==
    \/ MerlinCall \/ MerlinTestReply \/ MerlinEnsureConnected \/ MerlinSend \/ MerlinRecv
    \/ MerlinReconnect \/ MerlinResend \/ MerlinRecvRetry \/ MerlinCheck

SpecMerlin == InitMerlin /\ [][NextMerlin]_vars

----------------------------------------------------------------------------
(* The pure functions, applied to bounded inputs *)

PxVectors == (-MaxPx .. MaxPx) \X (-MaxPx .. MaxPx)
PixelSizes == 1 .. MaxPixelSize
\* every multiple of 90 degrees of one turn, the script's two angles (the
\* default 22.4 and the start -44.7) and a few more
TransformAngles ==
    { k * 90 * UnitsPerDegree : k \in -1 .. 3 }
      \cup { 22400, -44700, 10000, 45000, -30000, 123456 }

InitTransform ==
    /\ fn = "transform"
    /\ args \in [v : PxVectors, s : PixelSizes, a : TransformAngles]
    /\ step = "in"
    /\ out = << >>
    /\ CalIdle
    /\ TileIdle
    /\ MerIdle

ImageToBeam ==
    /\ fn = "transform" /\ step = "in"
    /\ out' = << image_to_beam_shift(args.v, args.s, args.a) >>
    /\ step' = "beam"
    /\ UNCHANGED << fn, args, calVars, tileVars, merVars >>

BeamToImage ==
    /\ fn = "transform" /\ step = "beam"
    /\ out' = Append(out, beam_to_image_shift(out[1], args.s, args.a))
    /\ step' = "back"
    /\ UNCHANGED << fn, args, calVars, tileVars, merVars >>

NextTransform == ImageToBeam \/ BeamToImage

SpecTransform == InitTransform /\ [][NextTransform]_vars

AngleVectors == (-MaxVec .. MaxVec) \X (-MaxVec .. MaxVec)

InitAngle ==
    /\ fn = "angle"
    /\ args \in [vec1 : AngleVectors, vec2 : AngleVectors]
    /\ step = "in"
    /\ out = << >>
    /\ CalIdle
    /\ TileIdle
    /\ MerIdle

SignedAngle ==
    /\ fn = "angle" /\ step = "in"
    /\ out' = << calculate_signed_angle_between_vectors(args.vec1, args.vec2) >>
    /\ step' = "returned"
    /\ UNCHANGED << fn, args, calVars, tileVars, merVars >>

NextAngle == SignedAngle

SpecAngle == InitAngle /\ [][NextAngle]_vars

\* bin_image applied to square frames
SideUnit == BINNED_SIDE \div 4
BinInputs == [N : { SideUnit * k : k \in 1 .. MaxSideUnits }, f : 1 .. MaxBinFactor]

InitBin ==
    /\ fn = "bin_image"
    /\ args \in BinInputs
    /\ step = "in"
    /\ out = << >>
    /\ CalIdle
    /\ TileIdle
    /\ MerIdle

BinImage ==
    /\ fn = "bin_image"
    /\ step = "in"
    /\ out' = bin_image(<< args.N, args.N >>, args.f)
    /\ step' = "out"
    /\ UNCHANGED << fn, args, calVars, tileVars, merVars >>

NextBin == BinImage

SpecBin == InitBin /\ [][NextBin]_vars

\* bin_image applied to frames it accepts, one output cell at a time
FrameContents == [base : 0 .. MaxPixelValue, kr : 0 .. 1, kc : 0 .. 2, chk : 0 .. 1]
BinnedCells == { 0, 1, BINNED_SIDE \div 2, BINNED_SIDE - 1 }

InitBinContent ==
    /\ fn = "bin_image_cell"
    /\ args \in [image : FrameContents, f : 1 .. MaxBinFactor, i : BinnedCells, j : BinnedCells]
    /\ step = "in"
    /\ out = << >>
    /\ CalIdle
    /\ TileIdle
    /\ MerIdle

BinImageCell ==
    /\ fn = "bin_image_cell"
    /\ step = "in"
    /\ ~bin_image(<< BINNED_SIDE * args.f, BINNED_SIDE * args.f >>, args.f).raised
    /\ out' = bin_image_cell(args.image, args.f, args.i, args.j)
    /\ step' = "out"
    /\ UNCHANGED << fn, args, calVars, tileVars, merVars >>

NextBinContent == BinImageCell

SpecBinContent == InitBinContent /\ [][NextBinContent]_vars

\* both estimators applied to images of zeros and ones and to templates of
\* ones, whose correlation surfaces have their maximum at several positions
TieImages ==
    UNION { [1 .. h -> [1 .. w -> 0 .. 1]] : << h, w >> \in (1 .. MaxTieSide) \X (1 .. MaxTieSide) }
TieTemplates ==
    { [m \in 1 .. h |-> [n \in 1 .. w |-> 1]] : << h, w >> \in (1 .. MaxTieSide) \X (1 .. MaxTieSide) }

InitPeak ==
    /\ fn = "peak"
    /\ args \in { a \in [image : TieImages, template : TieTemplates] :
                    /\ Len(a.template) <= Len(a.image)
                    /\ Len(a.template[1]) <= Len(a.image[1]) }
    /\ step = "in"
    /\ out = << >>
    /\ CalIdle
    /\ TileIdle
    /\ MerIdle

PeakFull ==
    /\ fn = "peak" /\ step = "in"
    /\ out' = << compute_translation_vector(args.image, args.template) >>
    /\ step' = "full"
    /\ UNCHANGED << fn, args, calVars, tileVars, merVars >>

PeakValid ==
    /\ fn = "peak" /\ step = "full"
    /\ out' = Append(out, cross_correlate(args.image, args.template))
    /\ step' = "valid"
    /\ UNCHANGED << fn, args, calVars, tileVars, merVars >>

NextPeak == PeakFull \/ PeakValid

SpecPeak == InitPeak /\ [][NextPeak]_vars

\* compute_translation_vector applied to a non-zero template embedded in a
\* canvas of zeros
Templates ==
    UNION { { t \in [1 .. h -> [1 .. w -> 0 .. 1]] : \E m \in 1 .. h, n \in 1 .. w : t[m][n] # 0 }
            : << h, w >> \in (1 .. MaxTemplate) \X (1 .. MaxTemplate) }

Embed(canvas_shape, template, top, left) ==
    [m \in 1 .. canvas_shape[1] |->
        [n \in 1 .. canvas_shape[2] |->
            IF /\ m - top \in 1 .. Len(template)
               /\ n - left \in 1 .. Len(template[1])
            THEN template[m - top][n - left]
            ELSE 0]]

EstimatorInputs ==
    { a \in [canvas : (1 .. MaxCanvas) \X (1 .. MaxCanvas), template : Templates,
             top : 0 .. MaxCanvas - 1, left : 0 .. MaxCanvas - 1] :
        /\ a.top + Len(a.template) <= a.canvas[1]
        /\ a.left + Len(a.template[1]) <= a.canvas[2] }

InitEstimator ==
    /\ fn = "compute_translation_vector"
    /\ args \in EstimatorInputs
    /\ step = "in"
    /\ out = << >>
    /\ CalIdle
    /\ TileIdle
    /\ MerIdle

ComputeTranslationVector ==
    /\ fn = "compute_translation_vector"
    /\ step = "in"
    /\ out' = compute_translation_vector(Embed(args.canvas, args.template, args.top, args.left),
                                         args.template)
    /\ step' = "out"
    /\ UNCHANGED << fn, args, calVars, tileVars, merVars >>

NextEstimator == ComputeTranslationVector

SpecEstimator == InitEstimator /\ [][NextEstimator]_vars

\* generate_template on frames of small widths and of the binned width, for
\* overlap factors written with one decimal or as quarters
InitTemplate ==
    /\ fn = "generate_template"
    /\ args \in [H : 1 .. 2, W : (1 .. MaxWidth) \cup { BINNED_SIDE },
                  overlap : { [n |-> k, d |-> 10] : k \in 1 .. 9 }
                              \cup { [n |-> k, d |-> 4] : k \in 1 .. 3 }]
    /\ step = "in"
    /\ out = << >>
    /\ CalIdle
    /\ TileIdle
    /\ MerIdle

GenerateTemplate ==
    /\ fn = "generate_template"
    /\ step = "in"
    /\ out' = generate_template(<< args.H, args.W >>, args.overlap.n, args.overlap.d)
    /\ step' = "out"
    /\ UNCHANGED << fn, args, calVars, tileVars, merVars >>

SpecTemplate == InitTemplate /\ [][GenerateTemplate]_vars

\* the valid-mode estimator on its own and inside the tile loop
InitValidEstimator == InitPeak \/ InitTiling

NextValidEstimator ==
    \/ PeakFull \/ PeakValid
    \/ TileAcquire \/ TileAfterColumns \/ TileEstimate \/ TileCorrect
    \/ TileClose \/ TileDisplay \/ TileRaise \/ TileExcept

SpecValidEstimator == InitValidEstimator /\ [][NextValidEstimator]_vars

----------------------------------------------------------------------------
(* Claims *)

\* the transform's round trip differs from v by at most this much per pixel
\* of |v| (in units of 1/TRIG_SCALE pixel) plus the rounding of the division
RoundTripTolerance(v) == ((Abs(v[1]) + Abs(v[2])) * TRIG_SCALE) \div 10000 + 2

\* C1: beam_to_image_shift(image_to_beam_shift(v, s, a), s, a) is v: exactly
\* when a is a multiple of 90 degrees, to the tolerance of the arithmetic
\* otherwise.
C1_RoundTrip ==
    (fn = "transform" /\ step = "back") =>
        LET v == args.v
            back == out[2]
        IN  IF args.a % (90 * UnitsPerDegree) = 0
            THEN back = << v[1] * TRIG_SCALE, v[2] * TRIG_SCALE >>
            ELSE /\ Abs(back[1] - v[1] * TRIG_SCALE) <= RoundTripTolerance(v)
                 /\ Abs(back[2] - v[2] * TRIG_SCALE) <= RoundTripTolerance(v)

\* a round trip of a vector with both components non-zero under the script's
\* start angle -44.7
C1_Witness ==
    /\ fn = "transform" /\ step = "back"
    /\ args.v = << 2, -1 >> /\ args.s = 2 /\ args.a = -44700
    /\ out[1] # Point(2 * 2 * TRIG_SCALE, 1 * 2 * TRIG_SCALE)

\* the calibration run of C2: the stub instrument, started from angle 0, ended
StubRunFromZero ==
    /\ cal_pc = "done"
    /\ instrument.kind = "misaligned"
    /\ correction_angle_list[1] = Num(0)

\* the outcome C2 states
ConvergedWithinBudget ==
    /\ exit_path = "converged"
    /\ guard_counter < GUARD_LIMIT
    /\ ~image_to_beam_shift_angle.nan
    /\ Abs(image_to_beam_shift_angle.val - instrument.T) < CONVERGENCE_TOLERANCE

ConvergentMisalignSteps == 12

C4_AtMostFiveRounds ==
    fn = "none" =>
        /\ guard_counter <= GUARD_LIMIT
        /\ Len(images_list) <= 2 * guard_counter
        /\ probe_commands <= guard_counter
        /\ exit_path = "exhausted" =>
              /\ guard_counter = GUARD_LIMIT
              /\ Len(images_list) = 2 * GUARD_LIMIT
              /\ probe_commands = GUARD_LIMIT

\* the budget was exhausted
C4_Witness ==
    /\ cal_pc = "done" /\ exit_path = "exhausted"
    /\ guard_counter = GUARD_LIMIT /\ Len(images_list) = 2 * GUARD_LIMIT

\* C5: when the script has finished, by whichever exit of the loop, the beam
\* deflection is (0, 0).
C5_DeflectionReset ==
    cal_pc = "done" => beam_shift = Point(0, 0)

\* a round raised while the probe deflection was applied, and the script ended
C5_Witness ==
    /\ cal_pc = "done" /\ exit_path = "exception"
    /\ probe_commands = guard_counter /\ guard_counter >= 2
    /\ column_valves = "closed"

\* C6: the estimate of a round is computed from the two frames of that round:
\* the reference frame taken at zero deflection after the reset and the frame
\* taken under the round's probe deflection.
C6_FramesOfTheRound ==
    cal_pc = "decide" =>
        /\ used_frames[1].round = guard_counter
        /\ used_frames[1].kind = "reference"
        /\ used_frames[1].beam = original_beam_shift
        /\ used_frames[2].round = guard_counter
        /\ used_frames[2].kind = "shifted"
        /\ used_frames[2].beam = beam_shift
        /\ used_frames[2].id = used_frames[1].id + 1

\* the estimate of the third round
C6_Witness ==
    /\ cal_pc = "decide" /\ guard_counter = 3
    /\ used_frames[1].id = 5 /\ used_frames[2].id = 6

\* both arguments non-zero, and the function returned
AngleReturned ==
    /\ fn = "angle" /\ step = "returned"
    /\ args.vec1 # << 0, 0 >> /\ args.vec2 # << 0, 0 >>

CrossProduct == args.vec1[1] * args.vec2[2] - args.vec1[2] * args.vec2[1]
DotProduct == args.vec1[1] * args.vec2[1] + args.vec1[2] * args.vec2[2]

\* C8 as stated: the sign of the angle is the sign of the cross product.
C8_SignIsSignOfCross ==
    AngleReturned => Sign(out[1].val) = Sign(CrossProduct)

\* C8, amended: the angle is negative exactly when the cross product is
\* negative and positive when it is positive; when the cross product is zero
\* the angle is 0 for vectors of the same direction and +180 for opposite
\* ones, exactly for vectors along the axes and otherwise to within the
\* rounding of the magnitudes, which is less than a step of the grid (0 and
\* 179.999 or 180 here); ((1,0),(0,1)) gives +90 and ((1,0),(0,-1)) gives -90.
C8_SignFollowsCross ==
    AngleReturned =>
        /\ ~out[1].nan
        /\ CrossProduct < 0 => out[1].val < 0
        /\ CrossProduct > 0 => out[1].val > 0
        /\ (CrossProduct = 0 /\ DotProduct > 0) => out[1].val = 0
        /\ (CrossProduct = 0 /\ DotProduct < 0)
              => out[1].val \in { 180 * UnitsPerDegree - 1, 180 * UnitsPerDegree }
        /\ (CrossProduct = 0 /\ DotProduct < 0 /\ args.vec1[1] * args.vec1[2] = 0)
              => out[1].val = 180 * UnitsPerDegree
        /\ (args.vec1 = << 1, 0 >> /\ args.vec2 = << 0, 1 >>) => out[1].val = 90 * UnitsPerDegree
        /\ (args.vec1 = << 1, 0 >> /\ args.vec2 = << 0, -1 >>) => out[1].val = -90 * UnitsPerDegree

\* the clockwise quarter turn
C8_Witness ==
    /\ AngleReturned
    /\ args.vec1 = << 1, 0 >> /\ args.vec2 = << 0, -1 >>
    /\ out[1] = Num(-90 * UnitsPerDegree)

\* C9: with an argument of zero magnitude the function does not return.
C9_ZeroMagnitudeNeverReturns ==
    ~ /\ fn = "angle" /\ step = "returned"
      /\ (args.vec1 = << 0, 0 >> \/ args.vec2 = << 0, 0 >>)

\* C3: when every displacement estimate of a seam is outside the tolerance, the
\* correction sub-loop is left after exactly 10 corrective re-acquisitions,
\* with correction_attempts = 10, and an 11th attempt is never started; the
\* sub-loop is left earlier only on an estimate within the tolerance
C3_ExactlyTenReacquisitions ==
    /\ correction_attempts <= 10
    /\ seam_reacquired <= 10
    /\ tile_pc = "correct" => correction_attempts < 10
    /\ seam_exit = "no_solution" =>
          correction_attempts = 10 /\ seam_reacquired = 10 /\ seam_estimates = 10
    /\ seam_exit = "accepted" => WithinTolerance(tile_peak)

C3_Witness ==
    /\ seam_exit = "no_solution"
    /\ seam_reacquired = 10
    /\ ~WithinTolerance(tile_peak)
    /\ tile_pc \in { "acquire", "close" }

\* C7: for every canvas size and template size, a non-zero template embedded
\* in a canvas of zeros at a known offset from the centred position gives
\* exactly that offset as (x, y).  The centred position of a template of
\* width Wt in a canvas of width Wc has its left edge at (Wc - Wt) / 2, so
\* twice the offset is 2 * left - (Wc - Wt), and likewise for the rows
C7_ExactOffset ==
    (fn = "compute_translation_vector" /\ step = "out") =>
        /\ 2 * out[1] = 2 * args.left - (args.canvas[2] - Len(args.template[1]))
        /\ 2 * out[2] = 2 * args.top - (args.canvas[1] - Len(args.template))

\* C10: for every square frame of side N and every bin factor f that divides
\* N, bin_image returns a frame of side N / f
C10_BinnedSide ==
    (fn = "bin_image" /\ step = "out" /\ args.N % args.f = 0) =>
        /\ ~out.raised
        /\ out.shape = << args.N \div args.f, args.N \div args.f >>

\* C11: bin_image applied to a square frame whose side is not a multiple of
\* the bin factor raises an error and returns no frame
C11_NonMultipleRaises ==
    (fn = "bin_image" /\ step = "out" /\ args.N % args.f # 0) =>
        /\ out.raised
        /\ out = ValueError

C11_Witness ==
    /\ fn = "bin_image" /\ step = "out"
    /\ args = [N |-> 4 * SideUnit, f |-> 3]
    /\ out.raised

\* the mean of the block of rows i*f .. i*f+f-1 and columns j*f .. j*f+f-1, as
\* the sum of the block over f * f
BlockSum(image, f, i, j) ==
    LET Rows == i * f .. i * f + f - 1
        Cols == j * f .. j * f + f - 1
        Row == [r \in Rows |->
                   SumRange([c \in Cols |-> PixelAt(image, r, c)], j * f, j * f + f - 1)]
    IN  SumRange(Row, i * f, i * f + f - 1)

\* C12: for a frame accepted by bin_image with factor f, output cell (i, j) is
\* the mean of the f x f input block of rows i*f .. i*f+f-1 and columns
\* j*f .. j*f+f-1; a uniform frame of value c gives cells of value c
C12_CellIsBlockMean ==
    (fn = "bin_image_cell" /\ step = "out") =>
        /\ out.den = args.f * args.f
        /\ out.num = BlockSum(args.image, args.f, args.i, args.j)
        /\ (args.image.kr = 0 /\ args.image.kc = 0 /\ args.image.chk = 0) =>
              out.num = args.image.base * out.den

\* a cell of the last row of a ramp binned by 4: the block mixes 16 values
C12_Witness ==
    /\ fn = "bin_image_cell" /\ step = "out"
    /\ args.f = 4 /\ args.i = BINNED_SIDE - 1 /\ args.j = 1
    /\ args.image = [base |-> 1, kr |-> 1, kc |-> 2, chk |-> 1]
    /\ out.num = BlockSum(args.image, 4, BINNED_SIDE - 1, 1)
    /\ out.num # out.den * PixelAt(args.image, 4 * (BINNED_SIDE - 1), 4)

\* C13: for every pixel vector v = (vx, vy) and pixel size s,
\* image_to_beam_shift(v, s, 0) is (s * vx, -s * vy): scaled by s, only the
\* y component negated, no rotation
C13_IdentityAngle ==
    (fn = "transform" /\ step \in { "beam", "back" } /\ args.a = 0) =>
        out[1] = Point(TRIG_SCALE * args.s * args.v[1], -(TRIG_SCALE * args.s * args.v[2]))

C13_Witness ==
    /\ fn = "transform" /\ step = "beam"
    /\ args = [v |-> << 2, -1 >>, s |-> 2, a |-> 0]
    /\ out[1] = Point(4 * TRIG_SCALE, 2 * TRIG_SCALE)

\* the stored tiles that have a left neighbour, as (row, column), in the order
\* of acquisition
SeamTiles ==
    LET HasSeam(image) == image.col >= 1
        tiles == SelectSeq(adornedImage_list, HasSeam)
    IN  [k \in 1 .. Len(tiles) |-> << tiles[k].row, tiles[k].col >>]

\* C14: for an R x C grid the correction sub-loop is entered once for each of
\* the R * (C - 1) horizontal seams, after the acquisition of each tile of
\* column 1 or more and before the acquisition of the next tile: whenever a
\* tile is about to be acquired or the grid is complete, the sub-loop has been
\* entered exactly once for each stored tile that has a left neighbour
C14_SubLoopPerSeam ==
    tile_pc \in { "acquire", "close" } =>
        /\ seams_entered = SeamTiles
        /\ tile_pc = "close" => Len(seams_entered) = grid.rows * (grid.cols - 1)

\* C15: exhausting the retry budget of a seam does not abort the grid: a run
\* in which nothing raises leaves the tile loop with exactly rows * cols
\* stored tiles, however many seams failed to converge; a correction attempt
\* does not change the number of stored tiles, and the number never decreases
C15_GridCompleted ==
    /\ [](tile_pc = "close" =>
            /\ Len(tile_images_list) = grid.rows * grid.cols
            /\ Len(adornedImage_list) = grid.rows * grid.cols)
    /\ [][/\ Len(tile_images_list') >= Len(tile_images_list)
          /\ Len(adornedImage_list') >= Len(adornedImage_list)
          /\ tile_pc = "correct" =>
                /\ Len(tile_images_list') = Len(tile_images_list)
                /\ Len(adornedImage_list') = Len(adornedImage_list)]_vars

\* two rows of three tiles, complete, after the seams of both rows used up
\* their ten re-acquisitions
C15_Witness ==
    /\ tile_pc = "close"
    /\ grid = [rows |-> 2, cols |-> 3]
    /\ Len(tile_images_list) = 6
    /\ frames_acquired = 6 + 2 * RETRY_BUDGET
    /\ seam_exit = "no_solution"

\* the texts a run that converges prints
ConvergedTexts == { "correction_angle", "optimal angle correction", "final angle" }

\* C16: when the loop reaches its attempt bound without convergence, the
\* outcome is reported as unconverged, in a way that tells it from the
\* converged outcome, together with the last angle estimate: the finished
\* run has printed the last angle, and a line that flags the outcome, one that
\* a converged run does not print
C16_UnconvergedReported ==
    (cal_pc = "done" /\ exit_path = "exhausted") =>
        /\ \E k \in 1 .. Len(printed) :
              printed[k] = Message("final angle", image_to_beam_shift_angle)
        /\ \E k \in 1 .. Len(printed) : printed[k].text \notin ConvergedTexts

\* position p holds the maximum of the surface and no position before it in
\* row-major order does
FirstMaximum(surface, shape, p) ==
    /\ p[1] \in 0 .. shape[1] - 1 /\ p[2] \in 0 .. shape[2] - 1
    /\ \A k \in 0 .. shape[1] - 1, l \in 0 .. shape[2] - 1 :
          /\ surface[k][l] <= surface[p[1]][p[2]]
          /\ (k < p[1] \/ (k = p[1] /\ l < p[2])) => surface[k][l] < surface[p[1]][p[2]]

AllEqual(surface, shape) ==
    \A k \in 0 .. shape[1] - 1, l \in 0 .. shape[2] - 1 : surface[k][l] = surface[0][0]

\* C17: when the maximum of the correlation surface is attained at several
\* positions, compute_translation_vector and cross_correlate both use the
\* first of them in row-major order; for an all-equal surface that is (0, 0)
C17_FirstMaximumWins ==
    LET fshape == FullShape(Shape(args.image), Shape(args.template))
        vshape == ValidShape(Shape(args.image), Shape(args.template))
        full == correlate2d_full(args.image, args.template)
        valid == correlate2d_valid(args.image, args.template)
        \* the peak compute_translation_vector used, from its (x, y) result
        full_peak == << out[1][2] + fshape[1] \div 2, out[1][1] + fshape[2] \div 2 >>
    IN  /\ (fn = "peak" /\ step \in { "full", "valid" }) =>
              /\ FirstMaximum(full, fshape, full_peak)
              /\ AllEqual(full, fshape) => full_peak = << 0, 0 >>
        /\ (fn = "peak" /\ step = "valid") =>
              /\ FirstMaximum(valid, vshape, out[2])
              /\ AllEqual(valid, vshape) => out[2] = << 0, 0 >>

\* two ones on the anti-diagonal and a template of one pixel: both surfaces
\* have two maxima, in different rows, and the one of the first row is taken
C17_Witness ==
    /\ fn = "peak" /\ step = "valid"
    /\ args.image = << << 0, 1 >>, << 1, 0 >> >>
    /\ args.template = << << 1 >> >>
    /\ out[2] = << 0, 1 >>
    /\ out[1] = << 0, -1 >>

\* C18: a round takes the converged exit if and only if the absolute value of
\* its correction angle is strictly less than 0.5 degrees; a correction angle
\* of +0.5 or -0.5 does not converge and is applied as a correction
C18_StrictTolerance ==
    /\ [](exit_path = "converged" =>
            ~correction_angle.nan /\ Abs(correction_angle.val) < UnitsPerDegree \div 2)
    /\ [][cal_pc = "decide" =>
            IF ~correction_angle.nan /\ Abs(correction_angle.val) < UnitsPerDegree \div 2
            THEN /\ exit_path' = "converged"
                 /\ cal_pc' = "finally"
                 /\ image_to_beam_shift_angle' = image_to_beam_shift_angle
            ELSE /\ exit_path' = "none"
                 /\ cal_pc' = "loop_top"
                 /\ image_to_beam_shift_angle' =
                       FAdd(image_to_beam_shift_angle, correction_angle)
                 /\ correction_angle_list' = Append(correction_angle_list, correction_angle)]_vars

\* a round whose correction angle was -0.5 has gone on to the next round with
\* the correction applied
C18_Witness ==
    /\ cal_pc = "loop_top"
    /\ exit_path = "none"
    /\ guard_counter = 1
    /\ correction_angle = Num(-(UnitsPerDegree \div 2))
    /\ correction_angle_list = << Num(0), correction_angle >>
    /\ image_to_beam_shift_angle = correction_angle

\* C19: a transport failure while sending or receiving is answered by one
\* reconnect and one resend; a failure during that retry propagates to the
\* caller with no further attempt; a command is transmitted at most twice per
\* call, and exactly once when nothing fails.
C19_SingleRetry ==
    /\ sends <= 2
    /\ connects <= 2
    /\ transport_failures <= 2
    /\ (~test_mode /\ m_result.status = "returned" /\ transport_failures = 0) => sends = 1
    /\ (~test_mode /\ m_pc = "check" /\ transport_failures = 0) => sends = 1
    /\ (m_pc \in { "recv_retry", "check" } /\ transport_failures = 1) => sends = 2
    /\ m_pc \in { "resend", "recv_retry" } => transport_failures = 1
    /\ transport_failures = 2 => (m_pc = "idle" /\ m_result.status = "raised")
    /\ (m_result.status = "raised" /\ m_result.error = "transport") => m_pc = "idle"

\* a call that met one transport failure, retried once and returned
C19_Witness ==
    /\ m_pc = "idle"
    /\ m_result.status = "returned"
    /\ transport_failures = 1
    /\ sends = 2

\* C20: in test mode the socket is never connected and never sent on,
\* connected stays False, and every call of _send_packet yields (returns and
\* prints) the built command string followed by ",0" without raising.
C20_TestModeOffline ==
    test_mode =>
        /\ connected = FALSE
        /\ sends = 0
        /\ connects = 0
        /\ m_result.status # "raised"
        /\ m_result.status = "returned" =>
              /\ return_data = command_string \o << "0" >>
              /\ JoinFields(return_data) = JoinFields(command_string) \o ",0"
              /\ m_printed = return_data
              /\ m_op.returns => m_result.value = return_data
        /\ (m_pc = "idle" /\ m_op.kind # "none") => m_result.status = "returned"

\* a property read in test mode has returned its reply
C20_Witness ==
    /\ test_mode
    /\ m_pc = "idle"
    /\ m_op.kind = "GET"
    /\ m_result.status = "returned"
    /\ m_result.value = command_string \o << "0" >>

\* C21: at the start of every round and at every exit of the calibration loop
\* image_to_beam_shift_angle is the sum of correction_angle_list; the list is
\* the starting angle followed by one entry per non-converged round, and the
\* converging round changes neither.
C21_AngleIsSumOfList ==
    /\ [](/\ cal_pc \in { "loop_top", "except", "finally", "done" } =>
               /\ ~image_to_beam_shift_angle.nan
               /\ image_to_beam_shift_angle = FSum(correction_angle_list)
               /\ correction_angle_list[1].val \in StartAngles
          /\ cal_pc = "loop_top" => Len(correction_angle_list) = 1 + guard_counter
          /\ exit_path \in { "converged", "exception" } =>
               Len(correction_angle_list) = guard_counter
          /\ exit_path = "exhausted" => Len(correction_angle_list) = 1 + GUARD_LIMIT)
    /\ [][/\ cal_pc # "off" => correction_angle_list'[1] = correction_angle_list[1]
          /\ (cal_pc = "decide" /\ Converged(correction_angle)) =>
               UNCHANGED << correction_angle_list, image_to_beam_shift_angle >>
          /\ (cal_pc = "decide" /\ ~Converged(correction_angle)) =>
               /\ correction_angle_list' = Append(correction_angle_list, correction_angle)
               /\ image_to_beam_shift_angle'.val =
                     image_to_beam_shift_angle.val + correction_angle.val
          /\ cal_pc \notin { "decide", "off" } =>
               UNCHANGED << correction_angle_list, image_to_beam_shift_angle >>]_vars

\* two corrections were applied, and the third round converged
C21_Witness ==
    /\ cal_pc = "done"
    /\ exit_path = "converged"
    /\ Len(correction_angle_list) = 3
    /\ correction_angle_list[2].val # 0
    /\ image_to_beam_shift_angle # correction_angle_list[1]

\* the commands of a round run under the angle estimate a
ExpectedRoundCommands(a) ==
    << Command("stage.absolute_move", original_stage_position),
       Command("beam_shift", Point(0, 0)),
       Command("stage.is_moving == False", Point(0, 0)),
       Command("acquire_stem_image", Point(0, 0)),
       Command("beam_shift", image_to_beam_shift(<< DESIRED_SHIFT_PX, 0 >>, PIXEL_SIZE, a.val)),
       Command("acquire_stem_image", Point(0, 0)),
       Command("blank", Point(0, 0)) >>

RoundPcs ==
    { "reset", "wait", "acquire_reference", "shift_beam", "acquire_shifted", "estimate",
      "decide" }

\* C22: in every calibration round the instrument is commanded in this order:
\* stage to the original position and deflection to zero, wait until the stage
\* is not moving, acquire the reference frame, set the deflection to the
\* transform of (DESIRED_SHIFT_PX, 0) under the round's angle estimate, acquire
\* the second frame; the pixel-space target is the same in every round.
C22_RoundCommandOrder ==
    /\ cal_pc \in RoundPcs =>
          /\ Len(commands) <= Len(ExpectedRoundCommands(image_to_beam_shift_angle))
          /\ commands = SubSeq(ExpectedRoundCommands(image_to_beam_shift_angle), 1, Len(commands))
    /\ cal_pc \in { "estimate", "decide" } =>
          /\ commands = ExpectedRoundCommands(image_to_beam_shift_angle)
          /\ Len(images_list) = 2 * guard_counter
    /\ cal_pc \in { "acquire_reference", "shift_beam", "acquire_shifted" } => ~is_moving
    /\ cal_pc = "acquire_reference" => Len(commands) = 3
    /\ cal_pc = "acquire_shifted" => Len(commands) = 5

\* the second round, run under a corrected angle, has issued all its commands
C22_Witness ==
    /\ cal_pc = "estimate"
    /\ guard_counter = 2
    /\ image_to_beam_shift_angle # correction_angle_list[1]
    /\ Len(commands) = 7
    /\ commands[5].arg # Point(0, 0)

\* C23: a tile is accepted, and the sub-loop left with no stage move and no
\* re-acquisition, if and only if both components of the valid-mode peak index
\* are at most SHIFT_TOLERANCE_PIXELS (5, inclusive) away from 0.
C23_AcceptedIffWithinFive ==
    [][(tile_pc = "estimate" /\ tile_pc' # "except") =>
          LET within == /\ -5 <= tile_peak'[1] /\ tile_peak'[1] <= 5
                        /\ -5 <= tile_peak'[2] /\ tile_peak'[2] <= 5
          IN  /\ SHIFT_TOLERANCE_PIXELS = 5
              /\ (seam_exit' = "accepted") <=> within
              /\ within =>
                    /\ tile_pc' \notin { "estimate", "correct" }
                    /\ UNCHANGED << tile_moves, frames_acquired, seam_reacquired,
                                    tile_images_list, adornedImage_list, stage_pos >>
              /\ ~within => tile_pc' = "correct"]_vars

\* a tile was accepted with its peak exactly at the tolerance
C23_Witness ==
    /\ seam_exit = "accepted"
    /\ tile_peak = << 0, SHIFT_TOLERANCE_PIXELS >>
    /\ seam_reacquired = 0

\* C24: in every non-accepted correction iteration the relative move on each
\* axis has magnitude (peak index on that axis) * BIN_FACTOR * PIXEL_SIZE and is
\* directed opposite to the sign of (recorded stage coordinate of the current
\* tile - desired coordinate) on that axis; with equal coordinates it is positive.
C24_CorrectiveMove ==
    [][(tile_pc = "correct" /\ tile_pc' # "except") =>
          LET recorded == adornedImage_list[Len(adornedImage_list)].stage_position
              off_x == recorded[1] - desired_abs_stage_pos[1]
              off_y == recorded[2] - desired_abs_stage_pos[2]
              size_x == tile_peak[2] * BIN_FACTOR * PIXEL_SIZE * OVERLAP_DEN
              size_y == tile_peak[1] * BIN_FACTOR * PIXEL_SIZE * OVERLAP_DEN
          IN  /\ Len(tile_moves') = 2
              /\ tile_moves'[1].axis = "x" /\ tile_moves'[2].axis = "y"
              /\ tile_moves'[1].delta = IF off_x > 0 THEN -size_x ELSE size_x
              /\ tile_moves'[2].delta = IF off_y > 0 THEN -size_y ELSE size_y
              /\ size_x >= 0 /\ size_y >= 0]_vars

\* a move to the left was made for a tile recorded to the right of its desired place
C24_Witness ==
    /\ tile_moves # << >>
    /\ tile_moves[1].delta < 0
    /\ adornedImage_list[Len(adornedImage_list)].stage_position[1] > desired_abs_stage_pos[1]

\* the positions in the last estimate's calls at which function f was applied to frame x
CallsOf(f, x) == { k \in 1 .. Len(tile_pipeline) : tile_pipeline[k] = << f, x >> }

\* C25: in every iteration of the tile correction sub-loop both the previous
\* and the current tile are binned and then preprocessed before the template
\* is extracted and the displacement is estimated.
C25_TilesPreprocessed ==
    seam_estimates > 0 =>
        \A x \in { "full_template_img", "current_img" } :
            \E b \in CallsOf("bin_image", x), p \in CallsOf("preprocess_image", x) :
                /\ b < p
                /\ \A t \in CallsOf("generate_template", "full_template_img")
                              \cup CallsOf("cross_correlate", "current_img") : p < t

\* C26: after each corrective move a new frame is acquired and replaces only
\* the last stored tile, image data and metadata together; the next estimate
\* uses that new frame as search image, and every other stored tile, the
\* template tile included, is left unchanged by the correction.
C26_OnlyLastTileReplaced ==
    /\ [][(tile_pc = "correct" /\ tile_pc' # "except") =>
             LET n == Len(tile_images_list)
             IN  /\ frames_acquired' = frames_acquired + 1
                 /\ Len(tile_images_list') = n
                 /\ Len(adornedImage_list') = n
                 /\ tile_images_list'[n] = frames_acquired'
                 /\ adornedImage_list'[n].data = frames_acquired'
                 /\ \A k \in 1 .. n - 1 :
                       /\ tile_images_list'[k] = tile_images_list[k]
                       /\ adornedImage_list'[k] = adornedImage_list[k]]_vars
    /\ [][(tile_pc = "estimate" /\ tile_pc' # "except" /\ seam_reacquired > 0) =>
             /\ tile_used'[2] = frames_acquired
             /\ tile_used'[2] # tile_used[2]
             /\ tile_used'[1] = tile_used[1]]_vars
    /\ [](\A k \in 1 .. Len(tile_images_list) : adornedImage_list[k].data = tile_images_list[k])

\* a second estimate of a seam was made on a re-acquired frame
C26_Witness ==
    /\ seam_reacquired = 1
    /\ seam_estimates = 2
    /\ Len(tile_images_list) >= 2
    /\ tile_used = << tile_images_list[Len(tile_images_list) - 1], frames_acquired >>

\* C27: for a frame of width W >= 1 and an overlap fraction in (0, 1),
\* generate_template returns all rows and exactly the columns
\* floor(W * (1 - overlap)) .. W - 1: a non-empty suffix of the columns that
\* contains the last column, and not the first column when W * (1 - overlap) >= 1.
C27_TemplateColumns ==
    (fn = "generate_template" /\ step = "out") =>
        LET W == args.W
            n == args.overlap.n
            d == args.overlap.d
        IN  /\ out.rows = 0 .. args.H - 1
            /\ out.columns = (W * (d - n)) \div d .. W - 1
            /\ out.columns # { }
            /\ W - 1 \in out.columns
            /\ W * (d - n) >= d => 0 \notin out.columns

\* C28: for an H x W search image and an h x w template,
\* compute_translation_vector returns (peak_col - floor((W + w - 1) / 2),
\* peak_row - floor((H + h - 1) / 2)), where (peak_row, peak_col) is the arg-max
\* of the (H + h - 1) x (W + w - 1) full correlation surface: x first, y second.
C28_PeakMinusCentre ==
    (fn = "compute_translation_vector" /\ step = "out") =>
        LET H == args.canvas[1]
            W == args.canvas[2]
            h == Len(args.template)
            w == Len(args.template[1])
            surface == correlate2d_full(Embed(args.canvas, args.template, args.top, args.left),
                                        args.template)
            Idx == (0 .. H + h - 2) \X (0 .. W + w - 2)
            Before(p, q) == p[1] < q[1] \/ (p[1] = q[1] /\ p[2] < q[2])
        IN  /\ DOMAIN surface = 0 .. H + h - 2
            /\ \A k \in DOMAIN surface : DOMAIN surface[k] = 0 .. W + w - 2
            /\ \E peak \in Idx :
                  /\ \A q \in Idx : surface[q[1]][q[2]] <= surface[peak[1]][peak[2]]
                  /\ \A q \in Idx : Before(q, peak) =>
                        surface[q[1]][q[2]] < surface[peak[1]][peak[2]]
                  /\ out = << peak[2] - (W + w - 1) \div 2, peak[1] - (H + h - 1) \div 2 >>

\* a result with different x and y for a search image that is not square
C28_Witness ==
    /\ fn = "compute_translation_vector" /\ step = "out"
    /\ args.canvas = << 2, 3 >>
    /\ Len(args.template) = 1 /\ Len(args.template[1]) = 2
    /\ args.left = 1
    /\ out[1] # out[2]

\* C29: cross_correlate returns the raw (row, col) peak, 0 <= row <= H - h and
\* 0 <= col <= W - w, neither centred nor swapped; in the tile loop the
\* template has the full height of the frame, so the row component is always
\* 0, the y move always has magnitude 0, and acceptance depends on the column
\* component alone.
C29_RawPeakRowZero ==
    /\ [](/\ (fn = "peak" /\ step = "valid") =>
               LET H == Len(args.image)
                   W == Len(args.image[1])
                   h == Len(args.template)
                   w == Len(args.template[1])
                   surface == correlate2d_valid(args.image, args.template)
               IN  /\ out[2][1] \in 0 .. H - h
                   /\ out[2][2] \in 0 .. W - w
                   /\ \A k \in 0 .. H - h, l \in 0 .. W - w :
                         surface[k][l] <= surface[out[2][1]][out[2][2]]
                   /\ h = H => out[2][1] = 0
          /\ tile_pc # "off" =>
               /\ TemplateShape[1] = BinnedShape[1]
               /\ tile_peak[1] = 0
               /\ tile_peak[2] \in 0 .. BinnedShape[2] - TemplateShape[2])
    /\ [][/\ (tile_pc = "correct" /\ tile_pc' # "except") => tile_moves'[2].delta = 0
          /\ (tile_pc = "estimate" /\ tile_pc' # "except") =>
               ((seam_exit' = "accepted") <=> (tile_peak'[2] <= SHIFT_TOLERANCE_PIXELS))]_vars

\* a correction in the tile loop moved the stage in x and by nothing in y
C29_Witness ==
    /\ tile_moves # << >>
    /\ tile_peak[1] = 0
    /\ tile_moves[1].delta > 0
    /\ tile_moves[2] = [axis |-> "y", delta |-> 0]

\* the estimator output (tx, ty) of the round
RoundTranslation == TranslationFromPeak(peak_index, << 511, 332 >>)

\* C30: the correction angle depends on the estimator output (tx, ty) only
\* through the angle between (179, 0) and (tx + 268.5, ty); it is exactly 0,
\* and the loop converges in that round, whenever ty = 0 and tx > -268.5, as
\* at the ideal match tx = -90; the magnitude ratio has no influence.
C30_AngleOfReanchoredVector ==
    /\ [](cal_pc = "decide" =>
             LET tx == RoundTranslation[1]
                 ty == RoundTranslation[2]
             IN  /\ correction_angle =
                       calculate_signed_angle_between_vectors(<< 358, 0 >>,
                                                              << 2 * tx + 537, 2 * ty >>)
                 /\ (ty = 0 /\ 2 * tx > -537) => correction_angle = Num(0)
                 /\ peak_index = << 255, 76 >> => (tx = -90 /\ ty = 0))
    /\ [][(cal_pc = "decide" /\ RoundTranslation[2] = 0 /\ 2 * RoundTranslation[1] > -537) =>
             /\ exit_path' = "converged"
             /\ UNCHANGED << image_to_beam_shift_angle, correction_angle_list >>]_vars

\* a round converged on a match at the right edge of the correlation surface,
\* where the second frame's centre is 2.4 times as far as desired
C30_Witness ==
    /\ exit_path = "converged"
    /\ RoundTranslation = << 165, 0 >>
    /\ correction_angle = Num(0)

\* the rows and columns of the second frame's pixel grid that the template's
\* content covers, from the peak the stub's frames give: the peak is where
\* the last row and the last column of the template lie
TemplateRowsInSecondFrame == (peak_index[1] - (TemplateShape[1] - 1)) .. peak_index[1]
TemplateColumnsInSecondFrame == (peak_index[2] - (TemplateShape[2] - 1)) .. peak_index[2]
\* the displacement of the field of view between the two frames of the stub,
\* in binned pixels: the template was cut at (0, TemplateStart)
FieldOfViewShift ==
    << TemplateStart(BINNED_SIDE) - (peak_index[2] - (TemplateShape[2] - 1)),
       0 - (peak_index[1] - (TemplateShape[1] - 1)) >>

\* C31: when the stub instrument turns the commanded displacement of 716 px
\* (179 binned pixels) into a pure -x displacement of the same magnitude, the
\* sample region of the template still overlaps the second frame, so that the
\* full correlation can find it.
C31_TemplateStillInFrame ==
    (/\ cal_pc = "decide"
     /\ instrument.kind = "misaligned"
     /\ FieldOfViewShift = << 0 - DESIRED_SHIFT_PX \div BIN_FACTOR, 0 >>)
    => /\ TemplateRowsInSecondFrame \cap (0 .. BinnedShape[1] - 1) # { }
       /\ TemplateColumnsInSecondFrame \cap (0 .. BinnedShape[2] - 1) # { }

\* the last count digits of n in positional notation, zeros in front
RECURSIVE FixedDigits(_, _)
FixedDigits(n, count) ==
    IF count = 0 THEN ""
    ELSE FixedDigits(n \div 10, count - 1) \o DecimalDigits[(n % 10) + 1]

\* C32: every message built is MPX, a length of ten decimal digits, the
\* command type, the command name and the arguments in order, joined by
\* commas; the length is the number of bytes after the length field, the comma
\* that follows it included.
C32_LengthPrefixedMessage ==
    command_string # << >> =>
        LET rest == SubSeq(command_string, 3, Len(command_string))
        IN  /\ command_string[1] = "MPX"
            /\ rest = << m_op.kind, m_op.name >> \o m_op.arguments
            /\ Len(command_string[2]) = 10
            /\ command_string[2] = FixedDigits(Len("," \o JoinFields(rest)), 10)

\* SET,FILEDIRECTORY,data has 22 bytes, 23 with the comma in front
C32_Witness ==
    /\ m_op.name = "FILEDIRECTORY"
    /\ JoinFields(command_string) = "MPX,0000000023,SET,FILEDIRECTORY,data"

\* the response that _check_packet_response is about to look at
ResponseHasName == \E k \in 1 .. Len(return_data) : return_data[k] = command_string[4]
ResponseEndsIn(codes) == return_data # << >> /\ return_data[Len(return_data)] \in codes
\* what _send_packet does with a response that passes, and that the
\* connection state is left alone by a response error
ResponseReturnedOrRaised ==
    /\ (ResponseHasName /\ ResponseEndsIn({ "0", "4", "5", "6", "7", "8", "9" }))
          => /\ m_result'.status = "returned"
             /\ m_op.returns => m_result'.value = return_data
    /\ m_result'.status = "raised" => connected' = connected

\* C33 as stated: a response without the command name, or ending in 1, 2 or
\* 3, raises and gives no data, with ValueError whenever it ends in 3; any
\* other response ending in a digit is returned unchanged; connected is
\* not changed by a response error.
C33_ResponseErrors ==
    [][m_pc = "check" =>
         /\ (~ResponseHasName \/ ResponseEndsIn({ "1", "2", "3" }))
               => m_result'.status = "raised" /\ m_result'.value = << >>
         /\ ResponseEndsIn({ "3" }) => m_result' = Raised("ValueError")
         /\ ResponseReturnedOrRaised]_vars

\* C33, amended: the command name is looked for first, so a response ending
\* in a digit that lacks the command name raises a plain Exception whatever
\* its code; ValueError is for a response that has the name and ends in 3,
\* Exception for one that has the name and ends in 1 or 2.
C33_ResponseErrorsNameFirst ==
    [][m_pc = "check" =>
         /\ (~ResponseHasName \/ ResponseEndsIn({ "1", "2", "3" }))
               => m_result'.status = "raised" /\ m_result'.value = << >>
         /\ (~ResponseHasName /\ ResponseEndsIn({ "0", "3" }))
               => m_result' = Raised("Exception")
         /\ (ResponseHasName /\ ResponseEndsIn({ "3" })) => m_result' = Raised("ValueError")
         /\ (ResponseHasName /\ ResponseEndsIn({ "1", "2" }))
               => m_result' = Raised("Exception")
         /\ ResponseReturnedOrRaised]_vars

C33_Witness ==
    /\ m_pc = "idle"
    /\ connected
    /\ return_data = << "MPX", "GET", "OTHER", "3" >>
    /\ m_result = Raised("Exception")

\* C34: a read of a GET property that comes back has sent one GET message
\* with the property's command name and no argument (once, when the transport
\* did not fail), and hands the response data to the caller; so for every
\* property, THRESHOLD6 included.
C34_GetReturnsResponse ==
    (m_pc = "idle" /\ m_op.kind = "GET" /\ m_result.status = "returned")
    => /\ SubSeq(command_string, 3, Len(command_string)) = << "GET", m_op.name >>
       /\ (~test_mode /\ transport_failures = 0) => sends = 1
       /\ m_result.value = return_data

RECURSIVE SumOfAngles(_)
SumOfAngles(list) ==
    IF list = << >> THEN 0 ELSE list[1].val + SumOfAngles(Tail(list))

\* the deflection commanded in the last round that was run
LastProbeDeflection == commands[5].arg
DeflectionAt(angle) == image_to_beam_shift(translation_vector_xy, PIXEL_SIZE, angle)

\* C36: at the end of a run that used up its budget the angle is the starting
\* angle plus the corrections of all five rounds, the fifth included, while the
\* fifth and last probe was commanded with the angle before that correction;
\* at the end of a run that converged the angle is the one the last probe was
\* commanded with.
C36_FinalAngle ==
    cal_pc = "done" =>
        /\ exit_path = "exhausted" =>
              /\ Len(correction_angle_list) = GUARD_LIMIT + 1
              /\ probe_commands = GUARD_LIMIT
              /\ image_to_beam_shift_angle = Num(SumOfAngles(correction_angle_list))
              /\ LastProbeDeflection =
                    DeflectionAt(SumOfAngles(SubSeq(correction_angle_list, 1, GUARD_LIMIT)))
              /\ LastProbeDeflection # DeflectionAt(image_to_beam_shift_angle.val)
        /\ exit_path = "converged" =>
              /\ image_to_beam_shift_angle = Num(SumOfAngles(correction_angle_list))
              /\ LastProbeDeflection = DeflectionAt(image_to_beam_shift_angle.val)

\* a run that used up its budget with a last correction that is not zero
C36_Witness ==
    /\ cal_pc = "done"
    /\ exit_path = "exhausted"
    /\ ~correction_angle.nan
    /\ Abs(correction_angle.val) >= CONVERGENCE_TOLERANCE
    /\ image_to_beam_shift_angle.val
         = SumOfAngles(SubSeq(correction_angle_list, 1, GUARD_LIMIT)) + correction_angle.val

\* the angle with the arguments exchanged
AngleReversed == calculate_signed_angle_between_vectors(args.vec2, args.vec1)
\* the angle is in (-180, 180] and negative only for a negative cross product
AngleInRange ==
    /\ ~out[1].nan
    /\ -180 * UnitsPerDegree < out[1].val /\ out[1].val <= 180 * UnitsPerDegree
    /\ out[1].val < 0 => CrossProduct < 0

\* C37 as stated: for non-zero vectors the angle is in (-180, 180], negative
\* only when the cross product is negative, +180 for antiparallel vectors in
\* either order, and angle(a, b) = -angle(b, a) for all other pairs.
C37_RangeAndAntisymmetry ==
    AngleReturned =>
        /\ AngleInRange
        /\ (CrossProduct = 0 /\ DotProduct < 0)
              => /\ out[1].val = 180 * UnitsPerDegree
                 /\ AngleReversed.val = 180 * UnitsPerDegree
        /\ ~(CrossProduct = 0 /\ DotProduct < 0) => out[1].val = 0 - AngleReversed.val

\* C37, amended: the angle is in (-180, 180] and negative only when the cross
\* product is negative; angle(a, b) = -angle(b, a) when the cross product is
\* not zero; vectors on one line give the same angle in either order: for
\* antiparallel ones +180 if they lie along an axis and otherwise +180 or less
\* than a step of the grid below it, for parallel ones less than a step of
\* the grid above 0.
C37_RangeAndAntisymmetryRounded ==
    AngleReturned =>
        /\ AngleInRange
        /\ CrossProduct # 0 => out[1].val = 0 - AngleReversed.val
        /\ CrossProduct = 0 => out[1] = AngleReversed
        /\ (CrossProduct = 0 /\ DotProduct < 0)
              => out[1].val \in { 180 * UnitsPerDegree - 1, 180 * UnitsPerDegree }
        /\ (CrossProduct = 0 /\ DotProduct < 0 /\ args.vec1[1] * args.vec1[2] = 0)
              => out[1].val = 180 * UnitsPerDegree
        /\ (CrossProduct = 0 /\ DotProduct > 0) => out[1].val = 0

\* antiparallel vectors off the axes: 179.9999988 degrees
C37_Witness ==
    /\ AngleReturned
    /\ args.vec1 = << 1, 1 >> /\ args.vec2 = << -1, -1 >>
    /\ out[1] = Num(180 * UnitsPerDegree - 1)

\* the last frame stored, and the later frame of the last estimate made
LastStoredFrame == tile_images_list[Len(tile_images_list)]
LastEstimatedFrame == tile_used[2]

\* C38: a seam has at most 10 estimates and at most 10 re-acquisitions; when
\* the sub-loop is left on the budget, the frame stored for the tile is the one
\* of the 10th re-acquisition, taken after the 10th and last estimate, which
\* was made on the frame before it.
C38_LastFrameUnchecked ==
    /\ [](seam_estimates <= 10 /\ seam_reacquired <= 10)
    /\ [][(seam_exit # "no_solution" /\ seam_exit' = "no_solution") =>
             /\ seam_estimates' = 10 /\ seam_reacquired' = 10
             /\ LastStoredFrame' = frames_acquired'
             /\ LastStoredFrame' \notin { tile_used'[1], tile_used'[2] }
             /\ LastEstimatedFrame' = LastStoredFrame
             /\ ~WithinTolerance(tile_peak')]_vars

\* the sub-loop has just been left on the budget
C38_Witness ==
    /\ seam_exit = "no_solution"
    /\ seam_estimates = 10 /\ seam_reacquired = 10
    /\ LastStoredFrame = frames_acquired
    /\ LastEstimatedFrame = frames_acquired - 1

\* C39: the valves, open from the start, are closed exactly when a round
\* raised and the except block has run; a script that ended by convergence or
\* on its budget ends with the valves open; on every path it ends with the
\* deflection at (0, 0).
C39_ValvesClosedOnlyOnException ==
    /\ column_valves = "closed"
         <=> (exit_path = "exception" /\ cal_pc \in { "finally", "done" })
    /\ cal_pc = "done" =>
          /\ beam_shift = Point(0, 0)
          /\ exit_path \in { "converged", "exhausted" } => column_valves = "open"

\* a run that converged has ended, the valves open and the deflection reset
C39_Witness ==
    /\ cal_pc = "done"
    /\ exit_path = "converged"
    /\ column_valves = "open"
    /\ beam_shift = Point(0, 0)
    /\ probe_commands >= 1

====
